---- MODULE Spec2Model ----
(***************************************************************************)
(* Wheel-speed malfunction detection, calibration management and UDS       *)
(* diagnostics of the ABS subsystem ("ABS malfunction").                   *)
(*                                                                         *)
(* Number representation.  The C code computes in float32.  The model uses *)
(* exact fixed point:                                                      *)
(*   - correction factors in thousandths        (1.15f  -> 1150)           *)
(*   - speeds, accelerations, percentages, tolerances in tenths            *)
(*                                              (60.0f  -> 600)            *)
(* The input sets are chosen so that every quotient the code forms is      *)
(* exact on this grid (speeds are even numbers of tenths, so the /2.0f of  *)
(* the median is exact) and so that no comparison sits within a float32    *)
(* rounding error of its threshold except where the exact value equals the *)
(* threshold and float32 rounds to the same side (1.15f: drift 14.999998   *)
(* in float32, 15.0 exactly; neither is > 15.0f).                          *)
(***************************************************************************)
EXTENDS Integers, Sequences, FiniteSets, TLC

VARIABLES
    g_MalfunctionStatus,      \* ABS_MalfunctionStatus_t g_MalfunctionStatus[WHEEL_MAX]
    g_DebounceCounters,       \* uint16 g_DebounceCounters[WHEEL_MAX]
    g_ConsecutiveErrorCount,  \* uint8  g_ConsecutiveErrorCount[WHEEL_MAX]
    g_SystemState,            \* ABS_SystemState_t g_SystemState
    g_VehicleData,            \* ABS_VehicleData_t g_VehicleData
    g_DetectionParams,        \* ABS_DetectionParameters_t g_DetectionParams
    g_Calibration,            \* g_SpeedSensorData[w].calibration
    cycleCount,               \* number of ABS_MalfunctionDetection_MainFunction calls so far
    referenceSpeed,           \* value returned by a direct call of ABS_CalculateMedianSpeed (-1: none yet)
    g_SpeedData,              \* g_SpeedSensorData[w].speedData
    g_CalibrationSessions,    \* CalibrationSession_t g_CalibrationSessions[WHEEL_MAX]
    g_SampleData,             \* CalibrationSampleData_t g_SampleData[WHEEL_MAX]
    g_CalibrationConfig,      \* CalibrationConfig_t g_CalibrationConfig
    g_CalibrationHistory,     \* g_CalibrationHistory[w][0 .. g_HistoryCount[w]-1]
    nvmBlocks,                \* the calibration block the NvM service holds per wheel
    rteDtcRequests,           \* DTC ids passed to Rte_Call_DiagnosticService_SetDTC(id, TRUE)
    retVal,                   \* return value of the last calibration manager call
    g_CalibrationManager_Initialized,  \* static boolean g_CalibrationManager_Initialized
    g_DTCTable,               \* DTCInfo_t g_DTCTable[DIAG_MAX_DTC_COUNT]
    g_ActiveDTCCount,         \* uint8 g_ActiveDTCCount
    g_CurrentSession,         \* DiagSession_t g_CurrentSession
    udsResponse,              \* response->responseData[0 .. responseDataLength-1] of the last request
    diagRetVal,               \* return value of the last diagnostic service call
    rawLatch,                 \* static bool rawLatch (Seatbelt_Sensor_IF; TRUE = latched)
    latch_timer_ms,           \* static uint16_t latch_timer_ms
    unlatch_timer_ms,         \* static uint16_t unlatch_timer_ms
    filteredLatch,            \* static bool filteredLatch
    same_state_ms,            \* static uint32_t same_state_ms of Seatbelt_Sensor_IF_10ms
    last_raw,                 \* static bool last_raw of Seatbelt_Sensor_IF_10ms
    rawOcc,                   \* static OccupancyState rawOcc (Occupancy_Sensor_IF)
    occ_timer_ms,             \* static uint16_t occ_timer_ms
    filteredOcc,              \* static OccupancyState filteredOcc
    occHeldMs,                \* time advanced since rawOcc was last set (t of advance_ms)
    seatbeltLatchFiltered,    \* RteBoolSignal seatbeltLatchFiltered (value, validity)
    occupancyFiltered,        \* RteOccupancySignal occupancyFiltered
    vehicleSpeed,             \* RteSpeedSignal vehicleSpeed
    ignitionState,            \* RteIgnitionSignal ignitionState
    doorClosed,               \* RteBoolSignal doorClosed
    warningRequest,           \* uint8_t warningRequest
    doorGraceRemaining,       \* static uint32_t doorGraceRemaining
    doorClosedMs              \* time the warning logic has read the door closed without
                              \* interruption, counted up to the door grace time

detVars == <<g_MalfunctionStatus, g_DebounceCounters, g_ConsecutiveErrorCount,
             g_SystemState, g_VehicleData, g_DetectionParams, cycleCount,
             referenceSpeed>>

calVars == <<g_SpeedData, g_CalibrationSessions, g_SampleData, g_CalibrationConfig,
             g_CalibrationHistory, nvmBlocks, rteDtcRequests, retVal,
             g_CalibrationManager_Initialized>>

diagVars == <<g_DTCTable, g_ActiveDTCCount, g_CurrentSession, udsResponse, diagRetVal>>

latchVars == <<rawLatch, latch_timer_ms, unlatch_timer_ms, filteredLatch,
               same_state_ms, last_raw>>

occVars == <<rawOcc, occ_timer_ms, filteredOcc, occHeldMs>>

rteVars == <<seatbeltLatchFiltered, occupancyFiltered, vehicleSpeed, ignitionState,
             doorClosed, warningRequest>>

logicVars == <<doorGraceRemaining, doorClosedMs>>

sbwVars == <<latchVars, occVars, rteVars, logicVars>>

vars == <<detVars, g_Calibration, calVars, diagVars, sbwVars>>

(***************************************************************************)
(* Bounds of the model.                                                    *)
(***************************************************************************)
MaxCycles == 6
\* longest sample buffer of a calibration session
MaxSamples == 3
\* most history entries (applied calibrations) of a wheel
MaxApplied == 1
\* most history entries of a wheel where factory resets are taken
MaxHistory == 2
\* highest occurrence count of a DTC entry
MaxOccurrences == 3

(***************************************************************************)
(* Program constants.                                                      *)
(***************************************************************************)
WHEEL_MAX == 4
WheelPositions == 0 .. (WHEEL_MAX - 1)

ABS_MALFUNCTION_NONE == 0
ABS_MALFUNCTION_SPEED_SENSOR_MISCALIBRATION == 1
ABS_MALFUNCTION_SPEED_SENSOR_FAILURE == 2
ABS_MALFUNCTION_SPEED_DIFFERENCE_EXCESSIVE == 4
ABS_MALFUNCTION_ACCELERATION_IMPLAUSIBLE == 5

ABS_SEVERITY_NONE == 0
ABS_SEVERITY_LOW == 1
ABS_SEVERITY_MEDIUM == 2
ABS_SEVERITY_HIGH == 3
ABS_SEVERITY_CRITICAL == 4

ABS_STATE_MONITORING == 1
ABS_STATE_MALFUNCTION == 3
ABS_STATE_DEGRADED == 4

ABS_DETECTION_CYCLE_MS == 20
\* 30.0f km/h, in tenths
ABS_MAX_SPEED_DIFFERENCE == 300
\* 15.0f m/s^2, in tenths
ABS_MAX_ACCELERATION == 150
\* 10.0f %, in tenths
ABS_CALIBRATION_DRIFT_LIMIT == 100
ABS_DEBOUNCE_TIME_MS == 100
ABS_CONSECUTIVE_ERRORS_MAX == 5

Abs(x) == IF x < 0 THEN -x ELSE x

(***************************************************************************)
(* Speed sensor component: the live calibration coefficients.              *)
(***************************************************************************)
\* SpeedSensor_Init: default calibration of every wheel
DefaultCalibration ==
    [correctionFactor |-> 1000, offsetValue |-> 0, pulsesPerRevolution |-> 60,
     wheelCircumference |-> 21, calibrationValid |-> TRUE]

\* The range check of SpeedSensor_SetCalibration
\* (0.5f < correctionFactor < 2.0f, pulses > 0, circumference > 0).
SetCalibrationAccepts(c) ==
    /\ c.correctionFactor > 500
    /\ c.correctionFactor < 2000
    /\ c.pulsesPerRevolution > 0
    /\ c.wheelCircumference > 0

\* SpeedSensor_SetCalibration: the calibration array after the call.
SpeedSensor_SetCalibration(cal, w, c) ==
    IF SetCalibrationAccepts(c)
    THEN [cal EXCEPT ![w] = [c EXCEPT !.calibrationValid = TRUE]]
    ELSE cal

(***************************************************************************)
(* Malfunction detector.                                                   *)
(***************************************************************************)
ABS_InitDefaultParameters ==
    [speedDifferenceThreshold |-> ABS_MAX_SPEED_DIFFERENCE,
     accelerationThreshold |-> ABS_MAX_ACCELERATION,
     calibrationDriftThreshold |-> ABS_CALIBRATION_DRIFT_LIMIT,
     debounceTimeMs |-> ABS_DEBOUNCE_TIME_MS,
     consecutiveErrorsThreshold |-> ABS_CONSECUTIVE_ERRORS_MAX,
     enableMiscalibrationDetection |-> TRUE,
     enableSpeedPlausibilityCheck |-> TRUE,
     enableAccelerationCheck |-> TRUE]

\* One record of g_MalfunctionStatus as ABS_MalfunctionDetection_Init leaves it.
InitialMalfunctionStatus ==
    [malfunctionType |-> ABS_MALFUNCTION_NONE, severity |-> ABS_SEVERITY_NONE,
     isActive |-> FALSE, occurrenceCount |-> 0, deviationValue |-> 0,
     confirmedMalfunction |-> FALSE]

\* memset(&g_VehicleData, 0, ...) in ABS_MalfunctionDetection_Init
ZeroVehicleData ==
    [wheelSpeed |-> [w \in WheelPositions |-> 0],
     speedValid |-> [w \in WheelPositions |-> FALSE],
     accelerationX |-> [w \in WheelPositions |-> 0],
     brakePedalPressed |-> FALSE]

\* validSpeeds[0 .. validCount-1]: the speeds of the valid wheels in wheel order.
RECURSIVE CollectValidSpeeds(_, _)
CollectValidSpeeds(vd, w) ==
    IF w = WHEEL_MAX THEN <<>>
    ELSE (IF vd.speedValid[w] THEN <<vd.wheelSpeed[w]>> ELSE <<>>)
         \o CollectValidSpeeds(vd, w + 1)

\* The bubble sort of ABS_CalculateMedianSpeed: one pass moves the largest
\* element to the end; validCount - 1 passes sort the array.
RECURSIVE BubblePass(_, _)
BubblePass(s, j) ==
    IF j >= Len(s) THEN s
    ELSE IF s[j] > s[j + 1]
         THEN BubblePass([s EXCEPT ![j] = s[j + 1], ![j + 1] = s[j]], j + 1)
         ELSE BubblePass(s, j + 1)

RECURSIVE BubbleSort(_, _)
BubbleSort(s, i) ==
    IF i >= Len(s) - 1 THEN s
    ELSE BubbleSort(BubblePass(SubSeq(s, 1, Len(s) - i), 1)
                    \o SubSeq(s, Len(s) - i + 1, Len(s)), i + 1)

\* ABS_CalculateMedianSpeed on vehicle data vd.
ABS_CalculateMedianSpeed(vd) ==
    LET validSpeeds == CollectValidSpeeds(vd, 0)
        validCount == Len(validSpeeds)
        sorted == BubbleSort(validSpeeds, 0)
    IN IF validCount >= 2
       THEN IF validCount % 2 = 0
            THEN (sorted[validCount \div 2] + sorted[validCount \div 2 + 1]) \div 2
            ELSE sorted[validCount \div 2 + 1]
       ELSE 0

\* ABS_CheckCalibrationDrift: <<isDrifted, driftPercentage>> (tenths of %).
\* |cf - 1.0| / 1.0 * 100 % with cf in thousandths is |cf - 1000| tenths of %.
ABS_CheckCalibrationDrift(cal, params, w) ==
    LET driftPercentage == Abs(cal[w].correctionFactor - 1000)
    IN <<driftPercentage > params.calibrationDriftThreshold, driftPercentage>>

\* ABS_CheckSpeedPlausibility: <<isPlausible, deviation>>.
ABS_CheckSpeedPlausibility(vd, params, w) ==
    IF vd.speedValid[w]
    THEN LET deviation == Abs(vd.wheelSpeed[w] - ABS_CalculateMedianSpeed(vd))
         IN <<~(deviation > params.speedDifferenceThreshold), deviation>>
    ELSE <<FALSE, 0>>

\* A variant that does not look at the brake pedal.
ABS_CheckAccelerationPlausibility_IgnoreBrake(vd, params, w) ==
    IF vd.speedValid[w]
    THEN LET acceleration == Abs(vd.accelerationX[w])
         IN <<~(acceleration > params.accelerationThreshold), acceleration>>
    ELSE <<FALSE, 0>>

\* ABS_CheckAccelerationPlausibility: <<isPlausible, acceleration>>.
ABS_CheckAccelerationPlausibility(vd, params, w) ==
    IF vd.speedValid[w]
    THEN LET acceleration == Abs(vd.accelerationX[w])
         IN <<~(acceleration > params.accelerationThreshold
                /\ ~vd.brakePedalPressed), acceleration>>
    ELSE <<FALSE, 0>>

\* ABS_DetermineSeverity with the critical band of a miscalibration closed at
\* its lower end (>= 15 % instead of > 15 %).
ABS_DetermineSeverity_AtLeast(type, deviation) ==
    IF type = ABS_MALFUNCTION_SPEED_SENSOR_MISCALIBRATION
    THEN IF deviation >= 150 THEN ABS_SEVERITY_CRITICAL
         ELSE IF deviation > 100 THEN ABS_SEVERITY_HIGH
         ELSE IF deviation > 50 THEN ABS_SEVERITY_MEDIUM
         ELSE ABS_SEVERITY_LOW
    ELSE IF type = ABS_MALFUNCTION_SPEED_DIFFERENCE_EXCESSIVE
    THEN IF deviation > 500 THEN ABS_SEVERITY_CRITICAL
         ELSE IF deviation > 300 THEN ABS_SEVERITY_HIGH
         ELSE IF deviation > 200 THEN ABS_SEVERITY_MEDIUM
         ELSE ABS_SEVERITY_LOW
    ELSE IF type = ABS_MALFUNCTION_ACCELERATION_IMPLAUSIBLE
    THEN IF deviation > 200 THEN ABS_SEVERITY_CRITICAL
         ELSE IF deviation > 150 THEN ABS_SEVERITY_HIGH
         ELSE ABS_SEVERITY_MEDIUM
    ELSE ABS_SEVERITY_LOW

\* ABS_DetermineSeverity (deviation in tenths).
ABS_DetermineSeverity(type, deviation) ==
    IF type = ABS_MALFUNCTION_SPEED_SENSOR_MISCALIBRATION
    THEN IF deviation > 150 THEN ABS_SEVERITY_CRITICAL
         ELSE IF deviation > 100 THEN ABS_SEVERITY_HIGH
         ELSE IF deviation > 50 THEN ABS_SEVERITY_MEDIUM
         ELSE ABS_SEVERITY_LOW
    ELSE IF type = ABS_MALFUNCTION_SPEED_DIFFERENCE_EXCESSIVE
    THEN IF deviation > 500 THEN ABS_SEVERITY_CRITICAL
         ELSE IF deviation > 300 THEN ABS_SEVERITY_HIGH
         ELSE IF deviation > 200 THEN ABS_SEVERITY_MEDIUM
         ELSE ABS_SEVERITY_LOW
    ELSE IF type = ABS_MALFUNCTION_ACCELERATION_IMPLAUSIBLE
    THEN IF deviation > 200 THEN ABS_SEVERITY_CRITICAL
         ELSE IF deviation > 150 THEN ABS_SEVERITY_HIGH
         ELSE ABS_SEVERITY_MEDIUM
    ELSE ABS_SEVERITY_LOW

\* A variant of the three checks in which a later check that trips replaces
\* the finding of an earlier one.
WheelDetection_LastCheckWins(vd, cal, params, w) ==
    LET drift == ABS_CheckCalibrationDrift(cal, params, w)
        speed == ABS_CheckSpeedPlausibility(vd, params, w)
        accel == ABS_CheckAccelerationPlausibility(vd, params, w)
        found(t, d) == [detected |-> TRUE, type |-> t,
                        severity |-> ABS_DetermineSeverity(t, d), deviation |-> d]
    IN IF params.enableAccelerationCheck /\ ~accel[1]
       THEN found(ABS_MALFUNCTION_ACCELERATION_IMPLAUSIBLE, accel[2])
       ELSE IF params.enableSpeedPlausibilityCheck /\ ~speed[1]
       THEN found(ABS_MALFUNCTION_SPEED_DIFFERENCE_EXCESSIVE, speed[2])
       ELSE IF params.enableMiscalibrationDetection /\ drift[1]
       THEN found(ABS_MALFUNCTION_SPEED_SENSOR_MISCALIBRATION, drift[2])
       ELSE [detected |-> FALSE, type |-> ABS_MALFUNCTION_NONE,
             severity |-> ABS_SEVERITY_NONE, deviation |-> 0]

\* The three checks of ABS_ProcessWheelMalfunctionDetection in their order:
\* [detected, type, severity, deviation] of the first check that trips.
WheelDetection(vd, cal, params, w) ==
    LET drift == ABS_CheckCalibrationDrift(cal, params, w)
        speed == ABS_CheckSpeedPlausibility(vd, params, w)
        accel == ABS_CheckAccelerationPlausibility(vd, params, w)
        found(t, d) == [detected |-> TRUE, type |-> t,
                        severity |-> ABS_DetermineSeverity(t, d), deviation |-> d]
    IN IF params.enableMiscalibrationDetection /\ drift[1]
       THEN found(ABS_MALFUNCTION_SPEED_SENSOR_MISCALIBRATION, drift[2])
       ELSE IF params.enableSpeedPlausibilityCheck /\ ~speed[1]
       THEN found(ABS_MALFUNCTION_SPEED_DIFFERENCE_EXCESSIVE, speed[2])
       ELSE IF params.enableAccelerationCheck /\ ~accel[1]
       THEN found(ABS_MALFUNCTION_ACCELERATION_IMPLAUSIBLE, accel[2])
       ELSE [detected |-> FALSE, type |-> ABS_MALFUNCTION_NONE,
             severity |-> ABS_SEVERITY_NONE, deviation |-> 0]

\* ABS_UpdateMalfunctionStatus on one record (occurrenceCount is uint16).
ABS_UpdateMalfunctionStatus(rec, type, severity, deviation) ==
    [rec EXCEPT !.malfunctionType = type, !.severity = severity,
                !.isActive = TRUE, !.deviationValue = deviation,
                !.occurrenceCount = (@ + 1) % 65536]

\* A variant of ABS_ProcessWheelMalfunctionDetection that counts the
\* consecutive errors of all wheels in one counter: a wheel's count continues
\* from the count of the wheel before it.
ABS_ProcessWheelMalfunctionDetection_SharedCounter(d, vd, cal, params, w) ==
    LET r == WheelDetection(vd, cal, params, w)
    IN IF r.detected
       THEN [d EXCEPT
               !.status[w] = ABS_UpdateMalfunctionStatus(@, r.type, r.severity,
                                                         r.deviation),
               !.consecutive[w] = (d.consecutive[(w + WHEEL_MAX - 1) % WHEEL_MAX] + 1) % 256]
       ELSE [d EXCEPT
               !.consecutive[w] = 0,
               !.debounce[w] = IF d.status[w].isActive THEN 0 ELSE @]

\* The detector's per-wheel state as one record:
\* d.status, d.debounce, d.consecutive are the three arrays.
\* ABS_ProcessWheelMalfunctionDetection(wheelPos).
ABS_ProcessWheelMalfunctionDetection(d, vd, cal, params, w) ==
    LET r == WheelDetection(vd, cal, params, w)
    IN IF r.detected
       THEN [d EXCEPT
               !.status[w] = ABS_UpdateMalfunctionStatus(@, r.type, r.severity,
                                                         r.deviation),
               !.consecutive[w] = (@ + 1) % 256]
       ELSE [d EXCEPT
               !.consecutive[w] = 0,
               !.debounce[w] = IF d.status[w].isActive THEN 0 ELSE @]

\* ABS_ProcessDebouncing(wheelPos) (the counter is uint16).
ABS_ProcessDebouncing(d, params, w) ==
    IF d.status[w].isActive
    THEN LET counter == (d.debounce[w] + ABS_DETECTION_CYCLE_MS) % 65536
         IN [d EXCEPT
               !.debounce[w] = counter,
               !.status[w].confirmedMalfunction =
                   IF counter >= params.debounceTimeMs THEN TRUE ELSE @]
    ELSE [d EXCEPT !.debounce[w] = 0,
                   !.status[w].confirmedMalfunction = FALSE]

\* The for loop of ABS_MalfunctionDetection_MainFunction over the wheels in
\* the order given by the sequence order.
RECURSIVE ProcessWheels(_, _, _, _, _)
ProcessWheels(d, vd, cal, params, order) ==
    IF order = <<>> THEN d
    ELSE ProcessWheels(
           ABS_ProcessDebouncing(
             ABS_ProcessWheelMalfunctionDetection(d, vd, cal, params, Head(order)),
             params, Head(order)),
           vd, cal, params, Tail(order))

\* A variant that reports malfunction for every confirmed record.
ABS_UpdateSystemState_AnySeverity(status) ==
    IF \E w \in WheelPositions : status[w].confirmedMalfunction
    THEN ABS_STATE_MALFUNCTION
    ELSE ABS_STATE_MONITORING

\* ABS_UpdateSystemState from the status array.
ABS_UpdateSystemState(status) ==
    LET confirmedWheels == {w \in WheelPositions : status[w].confirmedMalfunction}
        criticalMalfunctions ==
            Cardinality({w \in confirmedWheels : status[w].severity >= ABS_SEVERITY_HIGH})
        activeMalfunctions == Cardinality(confirmedWheels)
    IN IF criticalMalfunctions > 0 THEN ABS_STATE_MALFUNCTION
       ELSE IF activeMalfunctions > 0 THEN ABS_STATE_DEGRADED
       ELSE ABS_STATE_MONITORING

WheelOrder == <<0, 1, 2, 3>>

\* ABS_MalfunctionDetection_MainFunction: one detection cycle.
ABS_MalfunctionDetection_MainFunction ==
    /\ cycleCount < MaxCycles
    /\ LET d == ProcessWheels([status |-> g_MalfunctionStatus,
                               debounce |-> g_DebounceCounters,
                               consecutive |-> g_ConsecutiveErrorCount],
                              g_VehicleData, g_Calibration, g_DetectionParams,
                              WheelOrder)
       IN /\ g_MalfunctionStatus' = d.status
          /\ g_DebounceCounters' = d.debounce
          /\ g_ConsecutiveErrorCount' = d.consecutive
          /\ g_SystemState' = ABS_UpdateSystemState(d.status)
    /\ cycleCount' = cycleCount + 1
    /\ UNCHANGED <<sbwVars, g_VehicleData, g_DetectionParams, g_Calibration, referenceSpeed,
                   calVars, diagVars>>

\* ABS_UpdateVehicleData(vehicleData)
ABS_UpdateVehicleData(vehicleData) ==
    /\ g_VehicleData' = vehicleData
    /\ UNCHANGED <<sbwVars, g_MalfunctionStatus, g_DebounceCounters, g_ConsecutiveErrorCount,
                   g_SystemState, g_DetectionParams, g_Calibration, cycleCount,
                   referenceSpeed, calVars, diagVars>>

\* A direct call of SpeedSensor_SetCalibration(w, c) that keeps the wheel's
\* other coefficients and sets the correction factor to cf.
SetCorrectionFactor(w, cf) ==
    /\ g_Calibration' = SpeedSensor_SetCalibration(
                            g_Calibration, w,
                            [g_Calibration[w] EXCEPT !.correctionFactor = cf])
    /\ g_Calibration' # g_Calibration
    /\ UNCHANGED <<sbwVars, detVars, calVars, diagVars>>

(***************************************************************************)
(* Inputs of the detector specification.                                   *)
(***************************************************************************)
VehicleDataOf(speeds, valid, accel, brake) ==
    [wheelSpeed |-> [w \in WheelPositions |-> speeds[w + 1]],
     speedValid |-> [w \in WheelPositions |-> valid[w + 1]],
     accelerationX |-> [w \in WheelPositions |-> accel[w + 1]],
     brakePedalPressed |-> brake]

AllValid == <<TRUE, TRUE, TRUE, TRUE>>
NoAcceleration == <<0, 0, 0, 0>>

\* Four wheels at 60 km/h, no acceleration, brake released.
AllSixty == VehicleDataOf(<<600, 600, 600, 600>>, AllValid, NoAcceleration, FALSE)

\* Wheel 1 is the wheel whose samples go wrong; wheel 0 is the wheel whose
\* calibration is changed.  The other two wheels always report 60 km/h.
VehicleDataInputs ==
    { AllSixty,
      \* wheel 1 reads 100 km/h: 40 km/h off the median
      VehicleDataOf(<<600, 1000, 600, 600>>, AllValid, NoAcceleration, FALSE),
      \* wheel 1 has no valid sample
      VehicleDataOf(<<600, 0, 600, 600>>, <<TRUE, FALSE, TRUE, TRUE>>,
                    NoAcceleration, FALSE),
      \* wheel 1 accelerates with 18 m/s^2, brake released
      VehicleDataOf(<<600, 600, 600, 600>>, AllValid, <<0, 180, 0, 0>>, FALSE),
      \* wheel 1 decelerates with 18 m/s^2, brake pressed
      VehicleDataOf(<<600, 600, 600, 600>>, AllValid, <<0, -180, 0, 0>>, TRUE) }

CalibratedWheels == {0}

CorrectionFactorInputs == {1000, 1150}

(***************************************************************************)
(* Calibration manager.                                                    *)
(*                                                                         *)
(* Time: every timestamp the code reads is the literal 0 (startTimestamp,  *)
(* endTimestamp and currentTime are all assigned 0), so the elapsed time   *)
(* of a session is 0 in every cycle.                                       *)
(***************************************************************************)
E_OK == 0
E_NOT_OK == 1
NVM_REQ_OK == 0

CALIBRATION_RESULT_OK == 0
CALIBRATION_RESULT_NOT_OK == 1
CALIBRATION_RESULT_INVALID_PARAM == 2
CALIBRATION_RESULT_OUT_OF_RANGE == 3
CALIBRATION_RESULT_VALIDATION_FAILED == 5
CALIBRATION_RESULT_IN_PROGRESS == 6

CALIBRATION_METHOD_MANUAL == 0
CALIBRATION_METHOD_AUTOMATIC == 1
CALIBRATION_METHOD_FACTORY_RESET == 4

CALIBRATION_STATE_IDLE == 0
CALIBRATION_STATE_REQUESTED == 1
CALIBRATION_STATE_IN_PROGRESS == 2
CALIBRATION_STATE_COMPLETED == 3
CALIBRATION_STATE_FAILED == 4
CALIBRATION_STATE_CANCELLED == 5

CALIBRATION_MAX_SAMPLES == 1000
CALIBRATION_MIN_SAMPLES == 50
CALIBRATION_TIMEOUT_MS == 30000
CALIBRATION_HISTORY_SIZE == 10
CALIBRATION_AUTO_INTERVAL_MS == 3600000

\* 0xC14187, 0xC14287, 0xC14387
DTC_CALIBRATION_FAILED == 12665223
DTC_CALIBRATION_OUT_OF_RANGE == 12665479
DTC_CALIBRATION_NVM_ERROR == 12665735

\* The parameter dtcId of Rte_Call_DiagnosticService_SetDTC is a uint16.
RteDtcId(dtc) == dtc % 65536

\* uint32 currentTime = 0
currentTime == 0

\* CalibrationManager_InitDefaultConfig
CalibrationManager_InitDefaultConfig ==
    [maxCalibrationSamples |-> CALIBRATION_MAX_SAMPLES,
     minCalibrationSamples |-> CALIBRATION_MIN_SAMPLES,
     maxCorrectionFactor |-> 1500, minCorrectionFactor |-> 500,
     defaultTolerance |-> 20,
     calibrationTimeoutMs |-> CALIBRATION_TIMEOUT_MS,
     enableAutoCalibration |-> TRUE,
     autoCalibrationIntervalHours |-> 24]

\* memset(&request, 0, ...)
ZeroRequest ==
    [wheelPosition |-> 0, method |-> CALIBRATION_METHOD_MANUAL,
     referenceSpeed |-> 0, tolerancePercentage |-> 0, calibrationTimeMs |-> 0,
     forceCalibration |-> FALSE]

\* One session as CalibrationManager_Init leaves it.
InitialSession ==
    [request |-> ZeroRequest, state |-> CALIBRATION_STATE_IDLE,
     result |-> CALIBRATION_RESULT_OK, startTimestamp |-> 0, endTimestamp |-> 0,
     samplesCollected |-> 0, calculatedCorrectionFactor |-> 0,
     calculatedOffset |-> 0, measuredAccuracy |-> 0, sessionActive |-> FALSE]

\* memset(&g_SampleData[w], 0, ...): sampleCount is the length of the two
\* sequences.
EmptySampleData == [speedSamples |-> <<>>, referenceSamples |-> <<>>]

\* The speedData of a wheel after SpeedSensor_Init.
InitialSpeedData == [wheelSpeed |-> 0, speedValid |-> FALSE]

RECURSIVE SumSeq(_)
SumSeq(s) == IF s = <<>> THEN 0 ELSE Head(s) + SumSeq(Tail(s))

\* CalibrationManager_ValidateCalculatedCalibration: isValid.
\* A variant that checks the band only and ignores the measured accuracy.
CalibrationManager_ValidateCalculatedCalibration_BandOnly(session, config) ==
    /\ session.calculatedCorrectionFactor >= config.minCorrectionFactor
    /\ session.calculatedCorrectionFactor <= config.maxCorrectionFactor

CalibrationManager_ValidateCalculatedCalibration(session, config) ==
    /\ session.calculatedCorrectionFactor >= config.minCorrectionFactor
    /\ session.calculatedCorrectionFactor <= config.maxCorrectionFactor
    /\ session.measuredAccuracy >= 1000 - session.request.tolerancePercentage

\* CalibrationManager_CalculateCalibration: <<retVal, session>>.
\* avgReference / avgSpeed is sumReference / sumSpeed, in thousandths and
\* rounded down; the error is in tenths of a percent.
CalibrationManager_CalculateCalibration(session, sampleData, config) ==
    LET used == {i \in 1 .. Len(sampleData.speedSamples) :
                    /\ sampleData.speedSamples[i] > 0
                    /\ sampleData.referenceSamples[i] > 0}
        speeds == [i \in 1 .. Len(sampleData.speedSamples) |->
                      IF i \in used THEN sampleData.speedSamples[i] ELSE 0]
        references == [i \in 1 .. Len(sampleData.speedSamples) |->
                          IF i \in used THEN sampleData.referenceSamples[i] ELSE 0]
        sumSpeed == SumSeq(speeds)
        sumReference == SumSeq(references)
        validSamples == Cardinality(used)
        computed ==
            [session EXCEPT
               !.calculatedCorrectionFactor = (sumReference * 1000) \div sumSpeed,
               !.calculatedOffset = 0,
               !.measuredAccuracy =
                   1000 - (Abs(sumSpeed - sumReference) * 1000) \div sumReference]
    IN IF validSamples >= config.minCalibrationSamples
       THEN <<IF CalibrationManager_ValidateCalculatedCalibration(computed, config)
              THEN E_OK ELSE E_NOT_OK,
              computed>>
       ELSE <<E_NOT_OK, session>>

\* The per-wheel state of the manager as one record c: c.sessions,
\* c.samples, c.dtc (the ids passed to Rte_Call_DiagnosticService_SetDTC).
\* CalibrationManager_SetSessionResult(wheelPos, result).
CalibrationManager_SetSessionResult(c, w, result) ==
    [c EXCEPT
       !.sessions[w].result = result,
       !.dtc = IF result = CALIBRATION_RESULT_OK THEN @
               ELSE IF result = CALIBRATION_RESULT_OUT_OF_RANGE
                    THEN @ \cup {RteDtcId(DTC_CALIBRATION_OUT_OF_RANGE)}
                    ELSE @ \cup {RteDtcId(DTC_CALIBRATION_FAILED)}]

\* CalibrationManager_CollectSample: TRUE iff a sample is stored.
CollectSampleStores(c, speedData, config, w) ==
    /\ speedData[w].speedValid
    /\ Len(c.samples[w].speedSamples) < config.maxCalibrationSamples

\* CalibrationManager_CollectSample: the state after a stored sample.
CalibrationManager_CollectSample(c, speedData, w) ==
    [c EXCEPT
       !.samples[w].speedSamples = Append(@, speedData[w].wheelSpeed),
       !.samples[w].referenceSamples =
           Append(@, c.sessions[w].request.referenceSpeed)]

\* The sampling branch of CalibrationManager_ProcessCalibrationSession up to
\* the absolute timeout check.
SampleAndCompute(c, speedData, config, w) ==
    IF CollectSampleStores(c, speedData, config, w)
    THEN LET c1 == CalibrationManager_CollectSample(c, speedData, w)
             c2 == [c1 EXCEPT !.sessions[w].samplesCollected =
                                  Len(c1.samples[w].speedSamples) % 65536]
             s2 == c2.sessions[w]
         IN IF /\ s2.samplesCollected >= config.minCalibrationSamples
               /\ (currentTime - s2.startTimestamp) >= s2.request.calibrationTimeMs
            THEN LET r == CalibrationManager_CalculateCalibration(
                              s2, c2.samples[w], config)
                     c3 == [c2 EXCEPT !.sessions[w] = r[2]]
                 IN IF r[1] = E_OK
                    THEN CalibrationManager_SetSessionResult(
                             [c3 EXCEPT !.sessions[w].state = CALIBRATION_STATE_COMPLETED],
                             w, CALIBRATION_RESULT_OK)
                    ELSE CalibrationManager_SetSessionResult(
                             [c3 EXCEPT !.sessions[w].state = CALIBRATION_STATE_FAILED],
                             w, CALIBRATION_RESULT_VALIDATION_FAILED)
            ELSE c2
    ELSE c

\* CalibrationManager_ProcessCalibrationSession(wheelPos).
CalibrationManager_ProcessCalibrationSession(c, speedData, config, w) ==
    LET state == c.sessions[w].state
    IN IF state = CALIBRATION_STATE_REQUESTED
       THEN [c EXCEPT !.sessions[w].state = CALIBRATION_STATE_IN_PROGRESS]
       ELSE IF state = CALIBRATION_STATE_IN_PROGRESS
       THEN LET c1 == SampleAndCompute(c, speedData, config, w)
            IN IF (currentTime - c1.sessions[w].startTimestamp)
                      >= config.calibrationTimeoutMs
               THEN CalibrationManager_SetSessionResult(
                        [c1 EXCEPT !.sessions[w].state = CALIBRATION_STATE_FAILED],
                        w, CALIBRATION_RESULT_NOT_OK)
               ELSE c1
       ELSE IF state \in {CALIBRATION_STATE_COMPLETED, CALIBRATION_STATE_FAILED,
                          CALIBRATION_STATE_CANCELLED}
       THEN [c EXCEPT !.sessions[w].sessionActive = FALSE,
                      !.sessions[w].endTimestamp = currentTime]
       ELSE c

\* The session loop of CalibrationManager_MainFunction.
RECURSIVE ProcessSessions(_, _, _, _)
ProcessSessions(c, speedData, config, order) ==
    IF order = <<>> THEN c
    ELSE ProcessSessions(
           IF c.sessions[Head(order)].sessionActive
           THEN CalibrationManager_ProcessCalibrationSession(c, speedData, config,
                                                             Head(order))
           ELSE c,
           speedData, config, Tail(order))

\* CalibrationManager_StartCalibration(request) with the variant that does
\* not look at sessionActive and restarts the wheel's session.
CalibrationManager_StartCalibration_Restart(c, request) ==
    LET w == request.wheelPosition
    IN IF w < WHEEL_MAX
       THEN <<E_OK,
              [c EXCEPT
                 !.sessions[w] = [@ EXCEPT
                     !.request = request,
                     !.state = CALIBRATION_STATE_REQUESTED,
                     !.result = CALIBRATION_RESULT_IN_PROGRESS,
                     !.startTimestamp = 0,
                     !.samplesCollected = 0,
                     !.sessionActive = TRUE],
                 !.samples[w] = EmptySampleData]>>
       ELSE <<CALIBRATION_RESULT_INVALID_PARAM, c>>

\* CalibrationManager_StartCalibration(request): <<retVal, state after>>.
CalibrationManager_StartCalibration(c, request) ==
    LET w == request.wheelPosition
    IN IF w < WHEEL_MAX
       THEN IF ~c.sessions[w].sessionActive
            THEN <<E_OK,
                   [c EXCEPT
                      !.sessions[w] = [@ EXCEPT
                          !.request = request,
                          !.state = CALIBRATION_STATE_REQUESTED,
                          !.result = CALIBRATION_RESULT_IN_PROGRESS,
                          !.startTimestamp = 0,
                          !.samplesCollected = 0,
                          !.sessionActive = TRUE],
                      !.samples[w] = EmptySampleData]>>
            ELSE <<CALIBRATION_RESULT_IN_PROGRESS, c>>
       ELSE <<CALIBRATION_RESULT_INVALID_PARAM, c>>

\* CalibrationManager_ValidateCalibration: <<isValid, accuracy>> of the live
\* calibration of wheel w.
CalibrationManager_ValidateCalibration(cal, config, w) ==
    LET accuracy == 1000 - Abs(cal[w].correctionFactor - 1000)
    IN <<(/\ cal[w].correctionFactor >= config.minCorrectionFactor
          /\ cal[w].correctionFactor <= config.maxCorrectionFactor
          /\ cal[w].calibrationValid),
         IF accuracy < 0 THEN 0 ELSE accuracy>>

\* The request CalibrationManager_AutoCalibrationCheck builds for wheel w.
AutomaticRequest(config, w) ==
    [wheelPosition |-> w, method |-> CALIBRATION_METHOD_AUTOMATIC,
     referenceSpeed |-> 500, tolerancePercentage |-> config.defaultTolerance,
     calibrationTimeMs |-> 10000, forceCalibration |-> FALSE]

RECURSIVE StartAutomaticSessions(_, _, _, _)
StartAutomaticSessions(c, cal, config, order) ==
    IF order = <<>> THEN c
    ELSE LET w == Head(order)
             v == CalibrationManager_ValidateCalibration(cal, config, w)
         IN StartAutomaticSessions(
              IF ~v[1] \/ v[2] < 900
              THEN CalibrationManager_StartCalibration(c, AutomaticRequest(config, w))[2]
              ELSE c,
              cal, config, Tail(order))

\* static uint32 lastAutoCheckTime = 0; it is only ever assigned currentTime.
lastAutoCheckTime == 0

\* CalibrationManager_AutoCalibrationCheck.
CalibrationManager_AutoCalibrationCheck(c, cal, config) ==
    IF (currentTime - lastAutoCheckTime) >= CALIBRATION_AUTO_INTERVAL_MS
    THEN StartAutomaticSessions(c, cal, config, WheelOrder)
    ELSE c

\* A variant of CalibrationManager_AddHistoryEntry that overwrites the newest
\* entry of a full history.
CalibrationManager_AddHistoryEntry_DropNewest(history, entry) ==
    IF Len(history) < CALIBRATION_HISTORY_SIZE
    THEN Append(history, entry)
    ELSE Append(SubSeq(history, 1, CALIBRATION_HISTORY_SIZE - 1), entry)

\* CalibrationManager_AddHistoryEntry on the history of one wheel.
CalibrationManager_AddHistoryEntry(history, entry) ==
    IF Len(history) < CALIBRATION_HISTORY_SIZE
    THEN Append(history, entry)
    ELSE Append(Tail(history), entry)

\* The manager's state as the record the operators above work on.
ManagerState ==
    [sessions |-> g_CalibrationSessions, samples |-> g_SampleData,
     dtc |-> rteDtcRequests]

\* TRUE iff the next cycle stores a sample for wheel w.
NextCycleStoresSample(w) ==
    /\ g_CalibrationSessions[w].sessionActive
    /\ g_CalibrationSessions[w].state = CALIBRATION_STATE_IN_PROGRESS
    /\ CollectSampleStores(ManagerState, g_SpeedData, g_CalibrationConfig, w)

\* CalibrationManager_MainFunction: one calibration cycle, taken while no
\* wheel's sample count goes beyond limit.
CalibrationManager_MainFunctionUpTo(limit) ==
    /\ \A w \in WheelPositions :
          NextCycleStoresSample(w) => Len(g_SampleData[w].speedSamples) < limit
    /\ LET c1 == ProcessSessions(ManagerState, g_SpeedData, g_CalibrationConfig,
                                 WheelOrder)
           c2 == IF g_CalibrationConfig.enableAutoCalibration
                 THEN CalibrationManager_AutoCalibrationCheck(
                          c1, g_Calibration, g_CalibrationConfig)
                 ELSE c1
       IN /\ g_CalibrationSessions' = c2.sessions
          /\ g_SampleData' = c2.samples
          /\ rteDtcRequests' = c2.dtc
    /\ retVal' = E_OK
    /\ UNCHANGED <<sbwVars, g_CalibrationManager_Initialized,
                   detVars, diagVars, g_Calibration, g_SpeedData, g_CalibrationConfig,
                   g_CalibrationHistory, nvmBlocks>>

\* CalibrationManager_MainFunction: one calibration cycle.
CalibrationManager_MainFunction == CalibrationManager_MainFunctionUpTo(MaxSamples)

\* CalibrationManager_StartCalibration(&request)
StartCalibration(request) ==
    /\ LET r == CalibrationManager_StartCalibration(ManagerState, request)
       IN /\ retVal' = r[1]
          /\ g_CalibrationSessions' = r[2].sessions
          /\ g_SampleData' = r[2].samples
    /\ UNCHANGED <<sbwVars, g_CalibrationManager_Initialized,
                   detVars, diagVars, g_Calibration, g_SpeedData, g_CalibrationConfig,
                   g_CalibrationHistory, nvmBlocks, rteDtcRequests>>

\* A variant that ends the session and keeps its state and result.
CancelCalibration_KeepState(w) ==
    /\ IF g_CalibrationSessions[w].sessionActive
       THEN /\ g_CalibrationSessions' =
                  [g_CalibrationSessions EXCEPT
                     ![w].sessionActive = FALSE,
                     ![w].endTimestamp = 0]
            /\ retVal' = E_OK
       ELSE /\ retVal' = E_NOT_OK
            /\ UNCHANGED g_CalibrationSessions
    /\ UNCHANGED <<sbwVars, g_CalibrationManager_Initialized,
                   detVars, diagVars, g_Calibration, g_SpeedData, g_SampleData,
                   g_CalibrationConfig, g_CalibrationHistory, nvmBlocks,
                   rteDtcRequests>>

\* CalibrationManager_CancelCalibration(wheelPos)
CancelCalibration(w) ==
    /\ IF g_CalibrationSessions[w].sessionActive
       THEN /\ g_CalibrationSessions' =
                  [g_CalibrationSessions EXCEPT
                     ![w].state = CALIBRATION_STATE_CANCELLED,
                     ![w].result = CALIBRATION_RESULT_NOT_OK,
                     ![w].sessionActive = FALSE,
                     ![w].endTimestamp = 0]
            /\ retVal' = E_OK
       ELSE /\ retVal' = E_NOT_OK
            /\ UNCHANGED g_CalibrationSessions
    /\ UNCHANGED <<sbwVars, g_CalibrationManager_Initialized,
                   detVars, diagVars, g_Calibration, g_SpeedData, g_SampleData,
                   g_CalibrationConfig, g_CalibrationHistory, nvmBlocks,
                   rteDtcRequests>>

\* The calibration record CalibrationManager_ApplyCalibration passes to
\* SpeedSensor_SetCalibration.
AppliedCalibration(w) ==
    [g_Calibration[w] EXCEPT
       !.correctionFactor = g_CalibrationSessions[w].calculatedCorrectionFactor,
       !.offsetValue = g_CalibrationSessions[w].calculatedOffset,
       !.calibrationValid = TRUE]

\* The history entry CalibrationManager_ApplyCalibration adds.
AppliedHistoryEntry(w) ==
    [timestamp |-> g_CalibrationSessions[w].endTimestamp,
     method |-> g_CalibrationSessions[w].request.method,
     result |-> g_CalibrationSessions[w].result,
     oldCorrectionFactor |-> 1000,
     newCorrectionFactor |-> g_CalibrationSessions[w].calculatedCorrectionFactor,
     accuracy |-> g_CalibrationSessions[w].measuredAccuracy]

\* A variant that lets every session that has left idle be applied.
ApplyCalibrationPermitted_AnyState(w) ==
    g_CalibrationSessions[w].state # CALIBRATION_STATE_IDLE

\* The session check of CalibrationManager_ApplyCalibration.
ApplyCalibrationPermitted(w) ==
    /\ g_CalibrationSessions[w].state = CALIBRATION_STATE_COMPLETED
    /\ g_CalibrationSessions[w].result = CALIBRATION_RESULT_OK

\* A variant that restores the previous live calibration and adds no history
\* entry when the write to the NvM service fails.
ApplyCalibration_RollBack(w, saveToNvm, writeResult) ==
    /\ Len(g_CalibrationHistory[w]) < MaxApplied
    /\ IF /\ ApplyCalibrationPermitted(w)
          /\ SetCalibrationAccepts(AppliedCalibration(w))
       THEN IF saveToNvm /\ writeResult # NVM_REQ_OK
            THEN /\ rteDtcRequests' =
                       rteDtcRequests \cup {RteDtcId(DTC_CALIBRATION_NVM_ERROR)}
                 /\ retVal' = E_NOT_OK
                 /\ UNCHANGED <<g_Calibration, g_CalibrationHistory, nvmBlocks>>
            ELSE /\ g_Calibration' =
                       SpeedSensor_SetCalibration(g_Calibration, w, AppliedCalibration(w))
                 /\ nvmBlocks' = IF saveToNvm
                                 THEN [nvmBlocks EXCEPT ![w] = <<g_Calibration'[w]>>]
                                 ELSE nvmBlocks
                 /\ retVal' = E_OK
                 /\ g_CalibrationHistory' =
                       [g_CalibrationHistory EXCEPT
                          ![w] = CalibrationManager_AddHistoryEntry(
                                     @, AppliedHistoryEntry(w))]
                 /\ UNCHANGED rteDtcRequests
       ELSE /\ retVal' = E_NOT_OK
            /\ UNCHANGED <<g_Calibration, g_CalibrationHistory, nvmBlocks,
                           rteDtcRequests>>
    /\ UNCHANGED <<sbwVars, g_CalibrationManager_Initialized,
                   detVars, diagVars, g_SpeedData, g_CalibrationSessions, g_SampleData,
                   g_CalibrationConfig>>

\* CalibrationManager_ApplyCalibration(wheelPos, saveToNvm), taken while the
\* wheel's history has fewer than limit entries; writeResult is what
\* Rte_Call_NvmService_WriteBlock returns if it is called.
ApplyCalibrationUpTo(limit, w, saveToNvm, writeResult) ==
    /\ Len(g_CalibrationHistory[w]) < limit
    /\ IF /\ ApplyCalibrationPermitted(w)
          /\ SetCalibrationAccepts(AppliedCalibration(w))
       THEN /\ g_Calibration' =
                  SpeedSensor_SetCalibration(g_Calibration, w, AppliedCalibration(w))
            /\ IF saveToNvm
               THEN IF writeResult = NVM_REQ_OK
                    THEN /\ nvmBlocks' = [nvmBlocks EXCEPT ![w] = <<g_Calibration'[w]>>]
                         /\ retVal' = E_OK
                         /\ UNCHANGED rteDtcRequests
                    ELSE /\ rteDtcRequests' =
                               rteDtcRequests \cup {RteDtcId(DTC_CALIBRATION_NVM_ERROR)}
                         /\ retVal' = E_NOT_OK
                         /\ UNCHANGED nvmBlocks
               ELSE /\ retVal' = E_OK
                    /\ UNCHANGED <<nvmBlocks, rteDtcRequests>>
            /\ g_CalibrationHistory' =
                  [g_CalibrationHistory EXCEPT
                     ![w] = CalibrationManager_AddHistoryEntry(@, AppliedHistoryEntry(w))]
       ELSE /\ retVal' = E_NOT_OK
            /\ UNCHANGED <<g_Calibration, g_CalibrationHistory, nvmBlocks,
                           rteDtcRequests>>
    /\ UNCHANGED <<sbwVars, g_CalibrationManager_Initialized,
                   detVars, diagVars, g_SpeedData, g_CalibrationSessions, g_SampleData,
                   g_CalibrationConfig>>

\* CalibrationManager_ApplyCalibration(wheelPos, saveToNvm)
ApplyCalibration(w, saveToNvm, writeResult) ==
    ApplyCalibrationUpTo(MaxApplied, w, saveToNvm, writeResult)

\* CalibrationManager_SetConfig(&config)
SetConfig(config) ==
    /\ g_CalibrationConfig' = config
    /\ retVal' = E_OK
    /\ UNCHANGED <<sbwVars, g_CalibrationManager_Initialized,
                   detVars, diagVars, g_Calibration, g_SpeedData, g_CalibrationSessions,
                   g_SampleData, g_CalibrationHistory, nvmBlocks, rteDtcRequests>>

\* The speed data SpeedSensor_MainFunction stores for wheel w in a cycle.
StoreSpeedData(w, speedData) ==
    /\ g_SpeedData' = [g_SpeedData EXCEPT ![w] = speedData]
    /\ UNCHANGED <<sbwVars, g_CalibrationManager_Initialized,
                   detVars, diagVars, g_Calibration, g_CalibrationSessions, g_SampleData,
                   g_CalibrationConfig, g_CalibrationHistory, nvmBlocks,
                   rteDtcRequests, retVal>>

\* The calibration CalibrationManager_ResetToFactory builds.
FactoryCalibration ==
    [correctionFactor |-> 1000, offsetValue |-> 0, pulsesPerRevolution |-> 60,
     wheelCircumference |-> 21, calibrationValid |-> TRUE]

\* The history entry CalibrationManager_ResetToFactory adds.
FactoryResetHistoryEntry ==
    [timestamp |-> 0, method |-> CALIBRATION_METHOD_FACTORY_RESET,
     result |-> CALIBRATION_RESULT_OK, oldCorrectionFactor |-> 0,
     newCorrectionFactor |-> 1000, accuracy |-> 1000]

\* The live calibrations, histories, persisted blocks and DTC requests as the
\* record the three operators below work on.
NvmState ==
    [cal |-> g_Calibration, history |-> g_CalibrationHistory, nvm |-> nvmBlocks,
     dtc |-> rteDtcRequests]

\* CalibrationManager_SaveToNvm(wheelPos): <<return value, n afterwards>>;
\* writeResult is what Rte_Call_NvmService_WriteBlock returns.
CalibrationManager_SaveToNvm(n, w, writeResult) ==
    IF writeResult = NVM_REQ_OK
    THEN <<E_OK, [n EXCEPT !.nvm[w] = <<n.cal[w]>>]>>
    ELSE <<E_NOT_OK, [n EXCEPT !.dtc = @ \cup {RteDtcId(DTC_CALIBRATION_NVM_ERROR)}]>>

\* A variant of CalibrationManager_ResetToFactory that changes nothing when
\* the write fails.
CalibrationManager_ResetToFactory_RollBack(n, w, writeResult) ==
    IF writeResult = NVM_REQ_OK
    THEN <<E_OK,
           [n EXCEPT !.cal[w] = FactoryCalibration,
                     !.nvm[w] = <<FactoryCalibration>>,
                     !.history[w] = CalibrationManager_AddHistoryEntry(
                                        @, FactoryResetHistoryEntry)]>>
    ELSE <<E_NOT_OK, n>>

\* CalibrationManager_ResetToFactory(wheelPos): <<return value, n afterwards>>
CalibrationManager_ResetToFactory(n, w, writeResult) ==
    IF SetCalibrationAccepts(FactoryCalibration)
    THEN LET n1 == [n EXCEPT !.cal = SpeedSensor_SetCalibration(
                                         n.cal, w, FactoryCalibration)]
             r == CalibrationManager_SaveToNvm(n1, w, writeResult)
         IN <<r[1],
              [r[2] EXCEPT !.history[w] = CalibrationManager_AddHistoryEntry(
                                              @, FactoryResetHistoryEntry)]>>
    ELSE <<E_NOT_OK, n>>

\* CalibrationManager_LoadFromNvm(wheelPos): <<return value, n afterwards>>;
\* readResult and loaded are what Rte_Call_NvmService_ReadBlock returns and
\* stores, writeResult what a write of the factory defaults returns.
CalibrationManager_LoadFromNvm(n, config, w, readResult, loaded, writeResult) ==
    IF readResult = NVM_REQ_OK
    THEN IF /\ loaded.correctionFactor >= config.minCorrectionFactor
            /\ loaded.correctionFactor <= config.maxCorrectionFactor
            /\ loaded.calibrationValid
         THEN IF SetCalibrationAccepts(loaded)
              THEN <<E_OK, [n EXCEPT !.cal = SpeedSensor_SetCalibration(
                                                 n.cal, w, loaded)]>>
              ELSE <<E_NOT_OK, n>>
         ELSE CalibrationManager_ResetToFactory(n, w, writeResult)
    ELSE CalibrationManager_ResetToFactory(
             [n EXCEPT !.dtc = @ \cup {RteDtcId(DTC_CALIBRATION_NVM_ERROR)}],
             w, writeResult)

\* CalibrationManager_ResetToFactory(wheelPos), taken while the wheel's
\* history has fewer than limit entries.
ResetToFactoryUpTo(limit, w, writeResult) ==
    /\ Len(g_CalibrationHistory[w]) < limit
    /\ LET r == CalibrationManager_ResetToFactory(NvmState, w, writeResult)
       IN /\ retVal' = r[1]
          /\ g_Calibration' = r[2].cal
          /\ g_CalibrationHistory' = r[2].history
          /\ nvmBlocks' = r[2].nvm
          /\ rteDtcRequests' = r[2].dtc
    /\ UNCHANGED <<sbwVars, g_CalibrationManager_Initialized,
                   detVars, diagVars, g_SpeedData, g_CalibrationSessions, g_SampleData,
                   g_CalibrationConfig>>

\* CalibrationManager_ResetToFactory(wheelPos)
ResetToFactory(w, writeResult) == ResetToFactoryUpTo(MaxHistory, w, writeResult)

\* CalibrationManager_LoadFromNvm(wheelPos)
LoadFromNvm(w, readResult, loaded, writeResult) ==
    /\ Len(g_CalibrationHistory[w]) < MaxHistory
    /\ LET r == CalibrationManager_LoadFromNvm(NvmState, g_CalibrationConfig, w,
                                               readResult, loaded, writeResult)
       IN /\ retVal' = r[1]
          /\ g_Calibration' = r[2].cal
          /\ g_CalibrationHistory' = r[2].history
          /\ nvmBlocks' = r[2].nvm
          /\ rteDtcRequests' = r[2].dtc
    /\ UNCHANGED <<sbwVars, g_CalibrationManager_Initialized,
                   detVars, diagVars, g_SpeedData, g_CalibrationSessions, g_SampleData,
                   g_CalibrationConfig>>

\* A variant of the guard of CalibrationManager_LoadFromNvm that does not
\* look at g_CalibrationManager_Initialized.
LoadFromNvmEntered_AnyTime(initialized, w) == w < WHEEL_MAX

\* The guard of CalibrationManager_LoadFromNvm.
LoadFromNvmEntered(initialized, w) == w < WHEEL_MAX /\ initialized

\* The load loop of CalibrationManager_Init over the wheels in order, with
\* g_CalibrationManager_Initialized as it is during the loop; every read
\* returns readResult and stores the wheel's persisted block.
RECURSIVE LoadAllFromNvm(_, _, _, _, _, _)
LoadAllFromNvm(initialized, n, config, order, readResult, writeResult) ==
    IF order = <<>> THEN n
    ELSE LET w == Head(order)
         IN LoadAllFromNvm(
              initialized,
              IF LoadFromNvmEntered(initialized, w)
              THEN CalibrationManager_LoadFromNvm(n, config, w, readResult,
                                                  n.nvm[w][1], writeResult)[2]
              ELSE n,
              config, Tail(order), readResult, writeResult)

\* CalibrationManager_Init()
CalibrationManager_Init(readResult, writeResult) ==
    /\ IF ~g_CalibrationManager_Initialized
       THEN LET n == LoadAllFromNvm(
                         g_CalibrationManager_Initialized,
                         [NvmState EXCEPT
                            !.history = [w \in WheelPositions |-> <<>>]],
                         CalibrationManager_InitDefaultConfig, WheelOrder,
                         readResult, writeResult)
            IN /\ g_CalibrationSessions' = [w \in WheelPositions |-> InitialSession]
               /\ g_SampleData' = [w \in WheelPositions |-> EmptySampleData]
               /\ g_CalibrationConfig' = CalibrationManager_InitDefaultConfig
               /\ g_Calibration' = n.cal
               /\ g_CalibrationHistory' = n.history
               /\ nvmBlocks' = n.nvm
               /\ rteDtcRequests' = n.dtc
               /\ g_CalibrationManager_Initialized' = TRUE
       ELSE UNCHANGED <<g_CalibrationSessions, g_SampleData, g_CalibrationConfig,
                        g_Calibration, g_CalibrationHistory, nvmBlocks,
                        rteDtcRequests, g_CalibrationManager_Initialized>>
    /\ retVal' = E_OK
    /\ UNCHANGED <<sbwVars, detVars, diagVars, g_SpeedData>>

(***************************************************************************)
(* Inputs of the calibration specification.                                *)
(***************************************************************************)
\* The wheel whose calibration sessions are exercised.
CalibrationWheels == {0}

\* A request of the manual method for wheel w.
ManualRequest(w, reference, tolerance, timeMs) ==
    [wheelPosition |-> w, method |-> CALIBRATION_METHOD_MANUAL,
     referenceSpeed |-> reference, tolerancePercentage |-> tolerance,
     calibrationTimeMs |-> timeMs, forceCalibration |-> FALSE]

\* Reference 50 km/h with tolerance 100 % and no time budget, reference
\* 75 km/h likewise, reference 50 km/h with tolerance 2 % and a budget of
\* 10 s, and a request for a wheel that does not exist.
RequestInputs ==
    UNION {{ManualRequest(w, 500, 1000, 0), ManualRequest(w, 750, 1000, 0),
            ManualRequest(w, 500, 20, 10000)} : w \in CalibrationWheels}
    \cup {ManualRequest(WHEEL_MAX, 500, 20, 10000)}

\* 50 and 100 km/h, and no valid sample.
SpeedDataInputs ==
    {[wheelSpeed |-> 500, speedValid |-> TRUE],
     [wheelSpeed |-> 1000, speedValid |-> TRUE],
     [wheelSpeed |-> 0, speedValid |-> FALSE]}

\* The default configuration with small sample counts and the given
\* absolute timeout.
SmallConfig(timeoutMs) ==
    [CalibrationManager_InitDefaultConfig EXCEPT
       !.maxCalibrationSamples = MaxSamples,
       !.minCalibrationSamples = 2,
       !.calibrationTimeoutMs = timeoutMs]

ConfigInputs == {SmallConfig(CALIBRATION_TIMEOUT_MS), SmallConfig(0)}

(***************************************************************************)
(* Inputs of the persistence specification.                                *)
(***************************************************************************)
\* Correction factors passed to SpeedSensor_SetCalibration by other callers:
\* 1.15, 1.8, and 0.5 (which is not accepted).
SetCalibrationFactorInputs == {1150, 1800, 500}

\* What a block that was never written by the manager may hold: factor 1.15,
\* factor 1.8 (outside the band), factor 1.15 with the validity flag cleared.
NvmContentInputs ==
    { [FactoryCalibration EXCEPT !.correctionFactor = 1150],
      [FactoryCalibration EXCEPT !.correctionFactor = 1800],
      [FactoryCalibration EXCEPT !.correctionFactor = 1150,
                                 !.calibrationValid = FALSE] }

\* What Rte_Call_NvmService_ReadBlock can store for wheel w.
ReadableBlocks(w) ==
    IF nvmBlocks[w] # <<>> THEN {nvmBlocks[w][1]} ELSE NvmContentInputs

\* The small configuration, and the same with the band narrowed to [0.9, 1.1].
NvmConfigInputs ==
    { SmallConfig(CALIBRATION_TIMEOUT_MS),
      SmallConfig(0),
      [SmallConfig(CALIBRATION_TIMEOUT_MS) EXCEPT !.minCorrectionFactor = 900,
                                                  !.maxCorrectionFactor = 1100] }

\* Reference 60 km/h against samples of 50 km/h (factor 1.2, accuracy
\* 83.4 %), no time budget, with tolerance 100 % and with tolerance 10 %.
NvmRequestInputs ==
    { ManualRequest(w, 600, tolerance, 0) :
        w \in CalibrationWheels, tolerance \in {1000, 100} }

NvmSpeedDataInputs == { [wheelSpeed |-> 500, speedValid |-> TRUE] }

\* The state after CalibrationManager_Init.
InitCalibrationManager ==
    /\ g_SpeedData = [w \in WheelPositions |-> InitialSpeedData]
    /\ g_CalibrationSessions = [w \in WheelPositions |-> InitialSession]
    /\ g_SampleData = [w \in WheelPositions |-> EmptySampleData]
    /\ g_CalibrationConfig = CalibrationManager_InitDefaultConfig
    /\ g_CalibrationHistory = [w \in WheelPositions |-> <<>>]
    /\ nvmBlocks = [w \in WheelPositions |-> <<>>]
    /\ rteDtcRequests = {}
    /\ retVal = E_OK
    /\ g_CalibrationManager_Initialized = TRUE

(***************************************************************************)
(* Diagnostic service (DiagnosticService.c, DiagnosticService.h).          *)
(***************************************************************************)
UDS_SID_DIAGNOSTIC_SESSION_CONTROL == 16      \* 0x10
UDS_SID_ECU_RESET == 17                       \* 0x11
UDS_SID_CLEAR_DIAGNOSTIC_INFORMATION == 20    \* 0x14
UDS_SID_READ_DTC_INFORMATION == 25            \* 0x19
UDS_SID_READ_DATA_BY_IDENTIFIER == 34         \* 0x22
UDS_SID_WRITE_DATA_BY_IDENTIFIER == 46        \* 0x2E
UDS_SID_IO_CONTROL_BY_IDENTIFIER == 47        \* 0x2F
UDS_SID_ROUTINE_CONTROL == 49                 \* 0x31

UDS_NRC_SERVICE_NOT_SUPPORTED == 17           \* 0x11
UDS_NRC_SUBFUNCTION_NOT_SUPPORTED == 18       \* 0x12
UDS_NRC_INCORRECT_MESSAGE_LENGTH == 19        \* 0x13
UDS_NRC_CONDITIONS_NOT_CORRECT == 34          \* 0x22
UDS_NRC_REQUEST_OUT_OF_RANGE == 49            \* 0x31

UDS_NEGATIVE_RESPONSE == 127                  \* 0x7F
UDS_POSITIVE_RESPONSE_OFFSET == 64            \* the 0x40 added to the service id

DIAG_SESSION_DEFAULT == 1
DIAG_SESSION_PROGRAMMING == 2
DIAG_SESSION_EXTENDED == 3
DIAG_SESSION_SAFETY_SYSTEM == 4

DID_SPEED_SENSOR_FL_DATA == 61696             \* 0xF100
DID_SPEED_SENSOR_RR_DATA == 61699             \* 0xF103
DID_CALIBRATION_FL_PARAMS == 61712            \* 0xF110
DID_CALIBRATION_RR_PARAMS == 61715            \* 0xF113
DID_ABS_SYSTEM_STATUS == 61728                \* 0xF120
DID_MALFUNCTION_COUNTER == 61729              \* 0xF121

RID_START_CALIBRATION_FL == 513               \* 0x0201
RID_START_CALIBRATION_RR == 516               \* 0x0204
RID_VALIDATE_CALIBRATION == 528               \* 0x0210
RID_RESET_CALIBRATION_ALL == 544              \* 0x0220
RID_ABS_SELF_TEST == 560                      \* 0x0230

DTC_SPEED_SENSOR_FL_MISCALIBRATED == 12665088 \* 0xC14100
DTC_SPEED_SENSOR_FL_FAILURE == 12665344       \* 0xC14200
DTC_ABS_SYSTEM_MALFUNCTION == 12665600        \* 0xC14300
DTC_SPEED_PLAUSIBILITY_ERROR == 12665856      \* 0xC14400
DTC_GROUP_ALL == 16777215                     \* 0xFFFFFF

DIAG_MAX_DTC_COUNT == 32
DtcSlots == 0 .. (DIAG_MAX_DTC_COUNT - 1)

\* memset(&status, 0, sizeof(DTCStatus_t))
ZeroDTCStatus ==
    [testFailed |-> FALSE, testFailedThisOperationCycle |-> FALSE,
     pendingDTC |-> FALSE, confirmedDTC |-> FALSE,
     testNotCompletedSinceLastClear |-> FALSE, testFailedSinceLastClear |-> FALSE,
     testNotCompletedThisOperationCycle |-> FALSE,
     warningIndicatorRequested |-> FALSE]

\* memset(&g_DTCTable[i], 0, sizeof(DTCInfo_t)).  The fields the code only ever
\* writes 0 to (severity, functionalUnit, the two timestamps) are left out.
ZeroDTCInfo ==
    [dtcNumber |-> 0, status |-> ZeroDTCStatus, affectedWheel |-> 0,
     occurrenceCount |-> 0, malfunctionType |-> ABS_MALFUNCTION_NONE]

\* DiagnosticService_FindDTC(dtcNumber, &index): the index of the first slot
\* whose dtcNumber equals the argument, or -1 where the code returns E_NOT_OK.
DiagnosticService_FindDTC(table, dtcNumber) ==
    LET hits == {i \in DtcSlots : table[i].dtcNumber = dtcNumber}
    IN IF hits = {} THEN -1 ELSE CHOOSE i \in hits : \A j \in hits : i <= j

\* DiagnosticService_AddDTC(dtcNumber, wheelPos, type) on d = [table, count]:
\* <<return value, d afterwards>>
DiagnosticService_AddDTC(d, dtcNumber, wheelPos, type) ==
    LET empty == {i \in DtcSlots : d.table[i].dtcNumber = 0}
    IN IF empty = {}
       THEN <<E_NOT_OK, d>>
       ELSE LET i == CHOOSE k \in empty : \A j \in empty : k <= j
            IN <<E_OK,
                 [table |-> [d.table EXCEPT ![i] =
                                [@ EXCEPT !.dtcNumber = dtcNumber,
                                          !.affectedWheel = wheelPos,
                                          !.malfunctionType = type,
                                          !.status.testFailed = TRUE,
                                          !.status.testFailedThisOperationCycle = TRUE,
                                          !.status.pendingDTC = TRUE,
                                          !.occurrenceCount = 1]],
                  count |-> IF d.count < DIAG_MAX_DTC_COUNT
                            THEN d.count + 1 ELSE d.count]>>

\* DiagnosticService_UpdateDTCStatus(dtcNumber, active): <<return value, table>>
DiagnosticService_UpdateDTCStatus(table, dtcNumber, active) ==
    LET i == DiagnosticService_FindDTC(table, dtcNumber)
    IN IF i = -1
       THEN <<E_NOT_OK, table>>
       ELSE IF active
            THEN LET n == table[i].occurrenceCount + 1   \* uint32, far from wrapping
                 IN <<E_OK,
                      [table EXCEPT ![i] =
                          [@ EXCEPT !.status.testFailed = TRUE,
                                    !.status.testFailedThisOperationCycle = TRUE,
                                    !.occurrenceCount = n,
                                    !.status.confirmedDTC =
                                        IF n >= 3 THEN TRUE ELSE @]]>>
            ELSE <<E_OK, [table EXCEPT ![i].status.testFailed = FALSE]>>

\* A variant that allocates a new entry for every active report.
DiagnosticService_SetDTC_AlwaysAdd(d, dtcNumber, active, wheelPos) ==
    IF active
    THEN DiagnosticService_AddDTC(d, dtcNumber, wheelPos, ABS_MALFUNCTION_NONE)
    ELSE <<E_NOT_OK, d>>

\* DiagnosticService_SetDTC(dtcNumber, active, wheelPos): <<return value, d>>
DiagnosticService_SetDTC(d, dtcNumber, active, wheelPos) ==
    IF DiagnosticService_FindDTC(d.table, dtcNumber) # -1
    THEN LET r == DiagnosticService_UpdateDTCStatus(d.table, dtcNumber, active)
         IN <<r[1], [d EXCEPT !.table = r[2]]>>
    ELSE IF active
         THEN DiagnosticService_AddDTC(d, dtcNumber, wheelPos, ABS_MALFUNCTION_NONE)
         ELSE <<E_NOT_OK, d>>

\* The status a cleared entry is left with.
StatusAfterClear == [ZeroDTCStatus EXCEPT !.testNotCompletedSinceLastClear = TRUE]

\* DiagnosticService_ClearDTC(dtcNumber): <<return value, table>>
DiagnosticService_ClearDTC(table, dtcNumber) ==
    LET i == DiagnosticService_FindDTC(table, dtcNumber)
    IN IF i # -1
       THEN <<E_OK, [table EXCEPT ![i].status = StatusAfterClear]>>
       ELSE <<E_NOT_OK, table>>

\* A variant of DiagnosticService_ClearAllDTCs that keeps the confirmed bit.
DiagnosticService_ClearAllDTCs_KeepConfirmed(table) ==
    [i \in DtcSlots |->
        IF table[i].dtcNumber # 0
        THEN [table[i] EXCEPT !.status =
                 [StatusAfterClear EXCEPT !.confirmedDTC = table[i].status.confirmedDTC]]
        ELSE table[i]]

\* DiagnosticService_ClearAllDTCs(): the table afterwards (the call returns E_OK).
DiagnosticService_ClearAllDTCs(table) ==
    [i \in DtcSlots |->
        IF table[i].dtcNumber # 0
        THEN [table[i] EXCEPT !.status = StatusAfterClear]
        ELSE table[i]]

\* DiagnosticService_GetDTCForMalfunction(type, wheelPos)
DiagnosticService_GetDTCForMalfunction(type, wheelPos) ==
    CASE type = ABS_MALFUNCTION_SPEED_SENSOR_MISCALIBRATION ->
            IF wheelPos < WHEEL_MAX
            THEN DTC_SPEED_SENSOR_FL_MISCALIBRATED + wheelPos ELSE 0
      [] type = ABS_MALFUNCTION_SPEED_SENSOR_FAILURE ->
            IF wheelPos < WHEEL_MAX
            THEN DTC_SPEED_SENSOR_FL_FAILURE + wheelPos ELSE 0
      [] type = ABS_MALFUNCTION_SPEED_DIFFERENCE_EXCESSIVE ->
            DTC_SPEED_PLAUSIBILITY_ERROR
      [] OTHER -> DTC_ABS_SYSTEM_MALFUNCTION

\* The loop of DiagnosticService_MonitorMalfunctions over the wheels ws.
\* affectedWheel of g_MalfunctionStatus[w] is w (set by the detector's Init).
RECURSIVE MonitorWheels(_, _, _)
MonitorWheels(d, status, ws) ==
    IF ws = <<>>
    THEN d
    ELSE LET w == Head(ws)
             dtcNumber == DiagnosticService_GetDTCForMalfunction(
                              status[w].malfunctionType, w)
             d1 == IF status[w].confirmedMalfunction /\ dtcNumber # 0
                   THEN DiagnosticService_SetDTC(d, dtcNumber, TRUE, w)[2]
                   ELSE d
         IN MonitorWheels(d1, status, Tail(ws))

\* DiagnosticService_MonitorMalfunctions()
DiagnosticService_MonitorMalfunctions(d, status) ==
    MonitorWheels(d, status, WheelOrder)

\* ABS_ClearMalfunctionStatus(w) on det = [status, debounce, consecutive]
ABS_ClearMalfunctionStatus(det, w) ==
    IF w < WHEEL_MAX
    THEN [status |-> [det.status EXCEPT ![w] =
                         [@ EXCEPT !.isActive = FALSE,
                                   !.confirmedMalfunction = FALSE,
                                   !.malfunctionType = ABS_MALFUNCTION_NONE,
                                   !.severity = ABS_SEVERITY_NONE]],
          debounce |-> [det.debounce EXCEPT ![w] = 0],
          consecutive |-> [det.consecutive EXCEPT ![w] = 0]]
    ELSE det

\* The four ABS_ClearMalfunctionStatus calls of UDS_ClearDiagnosticInformation.
RECURSIVE ClearMalfunctionStatusOf(_, _)
ClearMalfunctionStatusOf(det, ws) ==
    IF ws = <<>> THEN det
    ELSE ClearMalfunctionStatusOf(ABS_ClearMalfunctionStatus(det, Head(ws)), Tail(ws))

\* DiagnosticService_PrepareErrorResponse(response, serviceId, nrc)
DiagnosticService_PrepareErrorResponse(serviceId, nrc) ==
    <<UDS_NEGATIVE_RESPONSE, serviceId, nrc>>

DetectorState ==
    [status |-> g_MalfunctionStatus, debounce |-> g_DebounceCounters,
     consecutive |-> g_ConsecutiveErrorCount]

DtcState == [table |-> g_DTCTable, count |-> g_ActiveDTCCount]

(***************************************************************************)
(* UDS service handlers.  A request is [serviceId, requestData,            *)
(* maxResponseLength]; requestDataLength is Len(requestData).  A handler   *)
(* leaves the bytes it wrote in udsResponse (a response it did not write   *)
(* has length 0) and its return value in diagRetVal.                       *)
(***************************************************************************)
RespondsWith(bytes) ==
    /\ udsResponse' = bytes
    /\ diagRetVal' = E_OK

RespondsNegative(serviceId, nrc) ==
    RespondsWith(DiagnosticService_PrepareErrorResponse(serviceId, nrc))

\* A variant that takes every requested level without validating it.
UDS_DiagnosticSessionControl_AnyLevel(request) ==
    /\ IF Len(request.requestData) >= 1 /\ request.maxResponseLength >= 6
       THEN /\ g_CurrentSession' = request.requestData[1]
            /\ RespondsWith(<<UDS_SID_DIAGNOSTIC_SESSION_CONTROL
                                + UDS_POSITIVE_RESPONSE_OFFSET,
                              request.requestData[1], 0, 50, 1, 244>>)
       ELSE /\ UNCHANGED g_CurrentSession
            /\ RespondsNegative(UDS_SID_DIAGNOSTIC_SESSION_CONTROL,
                                UDS_NRC_INCORRECT_MESSAGE_LENGTH)
    /\ UNCHANGED <<sbwVars, detVars, g_Calibration, calVars, g_DTCTable, g_ActiveDTCCount>>

\* UDS_DiagnosticSessionControl (0x10)
UDS_DiagnosticSessionControl(request) ==
    /\ IF Len(request.requestData) >= 1 /\ request.maxResponseLength >= 6
       THEN LET requestedSession == request.requestData[1]
            IN IF /\ requestedSession >= DIAG_SESSION_DEFAULT
                  /\ requestedSession <= DIAG_SESSION_SAFETY_SYSTEM
               THEN /\ g_CurrentSession' = requestedSession
                    /\ RespondsWith(<<UDS_SID_DIAGNOSTIC_SESSION_CONTROL
                                        + UDS_POSITIVE_RESPONSE_OFFSET,
                                      requestedSession, 0, 50, 1, 244>>)
               ELSE /\ UNCHANGED g_CurrentSession
                    /\ RespondsNegative(UDS_SID_DIAGNOSTIC_SESSION_CONTROL,
                                        UDS_NRC_SUBFUNCTION_NOT_SUPPORTED)
       ELSE /\ UNCHANGED g_CurrentSession
            /\ RespondsNegative(UDS_SID_DIAGNOSTIC_SESSION_CONTROL,
                                UDS_NRC_INCORRECT_MESSAGE_LENGTH)
    /\ UNCHANGED <<sbwVars, detVars, g_Calibration, calVars, g_DTCTable, g_ActiveDTCCount>>

\* UDS_ECUReset (0x11)
UDS_ECUReset(request) ==
    /\ IF Len(request.requestData) >= 1 /\ request.maxResponseLength >= 2
       THEN LET resetType == request.requestData[1]
            IN IF resetType = 1 /\ g_CurrentSession = DIAG_SESSION_PROGRAMMING
               THEN RespondsWith(<<UDS_SID_ECU_RESET + UDS_POSITIVE_RESPONSE_OFFSET,
                                   resetType>>)
               ELSE RespondsNegative(UDS_SID_ECU_RESET, UDS_NRC_CONDITIONS_NOT_CORRECT)
       ELSE RespondsNegative(UDS_SID_ECU_RESET, UDS_NRC_INCORRECT_MESSAGE_LENGTH)
    /\ UNCHANGED <<sbwVars, detVars, g_Calibration, calVars, g_DTCTable, g_ActiveDTCCount,
                   g_CurrentSession>>

\* dtcGroupToDelete of UDS_ClearDiagnosticInformation
DtcGroupToDelete(requestData) ==
    requestData[1] * 65536 + requestData[2] * 256 + requestData[3]

\* The body of UDS_ClearDiagnosticInformation (0x14) on the DTC table and the
\* detector state det = [status, debounce, consecutive]:
\* [response, table, det] afterwards (the handler always returns E_OK).
ClearDiagnosticInformation(request, table, det) ==
    IF Len(request.requestData) >= 3 /\ request.maxResponseLength >= 1
    THEN LET dtcGroupToDelete == DtcGroupToDelete(request.requestData)
             positive == <<UDS_SID_CLEAR_DIAGNOSTIC_INFORMATION
                             + UDS_POSITIVE_RESPONSE_OFFSET>>
             outOfRange == DiagnosticService_PrepareErrorResponse(
                               UDS_SID_CLEAR_DIAGNOSTIC_INFORMATION,
                               UDS_NRC_REQUEST_OUT_OF_RANGE)
         IN IF dtcGroupToDelete = DTC_GROUP_ALL
            THEN [response |-> positive,
                  table |-> DiagnosticService_ClearAllDTCs(table),
                  det |-> ClearMalfunctionStatusOf(det, WheelOrder)]
            ELSE LET r == DiagnosticService_ClearDTC(table, dtcGroupToDelete)
                 IN [response |-> IF r[1] = E_OK THEN positive ELSE outOfRange,
                     table |-> r[2], det |-> det]
    ELSE [response |-> DiagnosticService_PrepareErrorResponse(
                           UDS_SID_CLEAR_DIAGNOSTIC_INFORMATION,
                           UDS_NRC_INCORRECT_MESSAGE_LENGTH),
          table |-> table, det |-> det]

\* UDS_ClearDiagnosticInformation (0x14)
UDS_ClearDiagnosticInformation(request) ==
    /\ LET r == ClearDiagnosticInformation(request, g_DTCTable, DetectorState)
       IN /\ g_DTCTable' = r.table
          /\ g_MalfunctionStatus' = r.det.status
          /\ g_DebounceCounters' = r.det.debounce
          /\ g_ConsecutiveErrorCount' = r.det.consecutive
          /\ RespondsWith(r.response)
    /\ UNCHANGED <<sbwVars, g_SystemState, g_VehicleData, g_DetectionParams, cycleCount,
                   referenceSpeed, g_Calibration, calVars, g_ActiveDTCCount,
                   g_CurrentSession>>

\* DID_WriteCalibrationParams(did, data, length) is declared in
\* DiagnosticService.h and defined nowhere in the sources.  Modelled after its
\* description (writable per-wheel calibration parameters): the first data
\* byte is the wheel's new correction factor in hundredths, set through
\* SpeedSensor_SetCalibration.  <<return value, calibrations afterwards>>
DID_WriteCalibrationParams(cal, did, data) ==
    LET w == did - DID_CALIBRATION_FL_PARAMS
        c == [cal[w] EXCEPT !.correctionFactor = data[1] * 10]
    IN IF SetCalibrationAccepts(c)
       THEN <<E_OK, SpeedSensor_SetCalibration(cal, w, c)>>
       ELSE <<E_NOT_OK, cal>>

\* a & b on bytes.
RECURSIVE BitAnd(_, _)
BitAnd(a, b) ==
    IF a = 0 \/ b = 0
    THEN 0
    ELSE (a % 2) * (b % 2) + 2 * BitAnd(a \div 2, b \div 2)

\* *(uint8*)&status: the eight one-bit fields of DTCStatus_t read as a byte,
\* the first declared field in the least significant bit.
DTCStatusByte(status) ==
    LET Bit(b) == IF b THEN 1 ELSE 0
    IN Bit(status.testFailed) + 2 * Bit(status.testFailedThisOperationCycle)
       + 4 * Bit(status.pendingDTC) + 8 * Bit(status.confirmedDTC)
       + 16 * Bit(status.testNotCompletedSinceLastClear)
       + 32 * Bit(status.testFailedSinceLastClear)
       + 64 * Bit(status.testNotCompletedThisOperationCycle)
       + 128 * Bit(status.warningIndicatorRequested)

\* The loops of UDS_ReadDTCInformation from slot i on: the bytes appended at
\* responseIndex while responseIndex < limit; with withStatus the entries
\* matching statusMask, each followed by its status byte.
RECURSIVE ReportDTCs(_, _, _, _, _, _)
ReportDTCs(table, i, responseIndex, limit, withStatus, statusMask) ==
    IF i >= DIAG_MAX_DTC_COUNT \/ ~(responseIndex < limit)
    THEN <<>>
    ELSE LET dtcNumber == table[i].dtcNumber
             dtcStatus == DTCStatusByte(table[i].status)
             reported == /\ dtcNumber # 0
                         /\ withStatus => BitAnd(dtcStatus, statusMask) # 0
             bytes == IF reported
                      THEN <<(dtcNumber \div 65536) % 256, (dtcNumber \div 256) % 256,
                             dtcNumber % 256>>
                           \o (IF withStatus THEN <<dtcStatus>> ELSE <<>>)
                      ELSE <<>>
         IN bytes \o ReportDTCs(table, i + 1, responseIndex + Len(bytes), limit,
                                withStatus, statusMask)

\* UDS_ReadDTCInformation (0x19)
UDS_ReadDTCInformation(request) ==
    /\ IF Len(request.requestData) >= 1 /\ request.maxResponseLength >= 3
       THEN LET subFunction == request.requestData[1]
                positive == <<UDS_SID_READ_DTC_INFORMATION
                                + UDS_POSITIVE_RESPONSE_OFFSET, subFunction>>
            IN CASE subFunction = 2 ->
                      IF Len(request.requestData) >= 2
                      THEN LET statusMask == request.requestData[2]
                           IN RespondsWith(
                                  positive \o <<statusMask>>
                                  \o ReportDTCs(g_DTCTable, 0, 3,
                                                request.maxResponseLength - 4,
                                                TRUE, statusMask))
                      ELSE /\ udsResponse' = positive
                           /\ diagRetVal' = E_NOT_OK
                 [] subFunction = 10 ->
                      RespondsWith(positive
                                   \o ReportDTCs(g_DTCTable, 0, 2,
                                                 request.maxResponseLength - 3,
                                                 FALSE, 0))
                 [] OTHER ->
                      RespondsNegative(UDS_SID_READ_DTC_INFORMATION,
                                       UDS_NRC_SUBFUNCTION_NOT_SUPPORTED)
       ELSE RespondsNegative(UDS_SID_READ_DTC_INFORMATION,
                             UDS_NRC_INCORRECT_MESSAGE_LENGTH)
    /\ UNCHANGED <<sbwVars, detVars, g_Calibration, calVars, g_DTCTable, g_ActiveDTCCount,
                   g_CurrentSession>>

\* DID_ReadSpeedSensorData, DID_ReadCalibrationParams, DID_ReadABSSystemStatus
\* and DID_ReadMalfunctionCounter are declared in DiagnosticService.h and
\* defined nowhere in the sources.  Modelled after their description (the
\* identifiers exposed for read): the read succeeds; the payload encoding is
\* not given and is left empty.
DID_ReadData(dataId) == [retVal |-> E_OK, data |-> <<>>]

\* UDS_ReadDataByIdentifier (0x22)
UDS_ReadDataByIdentifier(request) ==
    /\ IF Len(request.requestData) >= 2 /\ request.maxResponseLength >= 3
       THEN LET dataId == request.requestData[1] * 256 + request.requestData[2]
                header == <<UDS_SID_READ_DATA_BY_IDENTIFIER
                              + UDS_POSITIVE_RESPONSE_OFFSET,
                            request.requestData[1], request.requestData[2]>>
            IN IF \/ dataId >= DID_SPEED_SENSOR_FL_DATA /\ dataId <= DID_SPEED_SENSOR_RR_DATA
                  \/ dataId >= DID_CALIBRATION_FL_PARAMS /\ dataId <= DID_CALIBRATION_RR_PARAMS
                  \/ dataId = DID_ABS_SYSTEM_STATUS
                  \/ dataId = DID_MALFUNCTION_COUNTER
               THEN LET r == DID_ReadData(dataId)
                    IN /\ diagRetVal' = r.retVal
                       /\ udsResponse' = IF r.retVal = E_OK
                                         THEN header \o r.data
                                         ELSE header
               ELSE RespondsNegative(UDS_SID_READ_DATA_BY_IDENTIFIER,
                                     UDS_NRC_REQUEST_OUT_OF_RANGE)
       ELSE RespondsNegative(UDS_SID_READ_DATA_BY_IDENTIFIER,
                             UDS_NRC_INCORRECT_MESSAGE_LENGTH)
    /\ UNCHANGED <<sbwVars, detVars, g_Calibration, calVars, g_DTCTable, g_ActiveDTCCount,
                   g_CurrentSession>>

\* UDS_WriteDataByIdentifier (0x2E) with the session level as a parameter.
WriteDataByIdentifierIn(session, request) ==
    /\ IF Len(request.requestData) >= 3 /\ request.maxResponseLength >= 3
       THEN LET dataId == request.requestData[1] * 256 + request.requestData[2]
            IN IF session = DIAG_SESSION_EXTENDED
               THEN IF /\ dataId >= DID_CALIBRATION_FL_PARAMS
                       /\ dataId <= DID_CALIBRATION_RR_PARAMS
                    THEN LET r == DID_WriteCalibrationParams(
                                      g_Calibration, dataId,
                                      SubSeq(request.requestData, 3,
                                             Len(request.requestData)))
                         IN /\ g_Calibration' = r[2]
                            /\ diagRetVal' = r[1]
                            /\ udsResponse' =
                                  IF r[1] = E_OK
                                  THEN <<UDS_SID_WRITE_DATA_BY_IDENTIFIER
                                           + UDS_POSITIVE_RESPONSE_OFFSET,
                                         request.requestData[1],
                                         request.requestData[2]>>
                                  ELSE <<>>
                    ELSE /\ UNCHANGED g_Calibration
                         /\ RespondsNegative(UDS_SID_WRITE_DATA_BY_IDENTIFIER,
                                             UDS_NRC_REQUEST_OUT_OF_RANGE)
               ELSE /\ UNCHANGED g_Calibration
                    /\ RespondsNegative(UDS_SID_WRITE_DATA_BY_IDENTIFIER,
                                        UDS_NRC_CONDITIONS_NOT_CORRECT)
       ELSE /\ UNCHANGED g_Calibration
            /\ RespondsNegative(UDS_SID_WRITE_DATA_BY_IDENTIFIER,
                                UDS_NRC_INCORRECT_MESSAGE_LENGTH)
    /\ UNCHANGED <<sbwVars, detVars, calVars, g_DTCTable, g_ActiveDTCCount, g_CurrentSession>>

\* A variant of UDS_WriteDataByIdentifier that honours writes in every session.
UDS_WriteDataByIdentifier_AnySession(request) ==
    WriteDataByIdentifierIn(DIAG_SESSION_EXTENDED, request)

\* UDS_WriteDataByIdentifier (0x2E)
UDS_WriteDataByIdentifier(request) ==
    WriteDataByIdentifierIn(g_CurrentSession, request)

\* UDS_InputOutputControlByIdentifier (0x2F)
UDS_InputOutputControlByIdentifier(request) ==
    /\ RespondsNegative(UDS_SID_IO_CONTROL_BY_IDENTIFIER, UDS_NRC_SERVICE_NOT_SUPPORTED)
    /\ UNCHANGED <<sbwVars, detVars, g_Calibration, calVars, g_DTCTable, g_ActiveDTCCount,
                   g_CurrentSession>>

\* The four routines are declared in DiagnosticService.h and defined nowhere
\* in the sources.  Modelled after their descriptions: start-calibration asks
\* the calibration manager for a manual session of the routine's wheel at
\* 50 km/h, tolerance 2 %, 10 s; reset-all restores every wheel's default
\* coefficients; validation and self test change nothing.
\* [retVal, cal, c]: return value, calibrations and manager state afterwards.
RID_StartCalibration(cal, c, rid) ==
    LET r == CalibrationManager_StartCalibration(
                 c, ManualRequest(rid - RID_START_CALIBRATION_FL, 500, 20, 10000))
    IN [retVal |-> r[1], cal |-> cal, c |-> r[2]]

RID_ValidateCalibration(cal, c) == [retVal |-> E_OK, cal |-> cal, c |-> c]

RID_ResetCalibrationAll(cal, c) ==
    [retVal |-> E_OK, cal |-> [w \in WheelPositions |-> DefaultCalibration], c |-> c]

RID_ABSSelfTest(cal, c) == [retVal |-> E_OK, cal |-> cal, c |-> c]

\* UDS_RoutineControl (0x31)
UDS_RoutineControl(request) ==
    /\ IF Len(request.requestData) >= 4 /\ request.maxResponseLength >= 4
       THEN LET subFunction == request.requestData[1]
                routineId == request.requestData[2] * 256 + request.requestData[3]
                positive == <<UDS_SID_ROUTINE_CONTROL + UDS_POSITIVE_RESPONSE_OFFSET,
                              subFunction, request.requestData[2],
                              request.requestData[3]>>
                Runs(r) == /\ g_Calibration' = r.cal
                           /\ g_CalibrationSessions' = r.c.sessions
                           /\ g_SampleData' = r.c.samples
                           /\ udsResponse' = positive
                           /\ diagRetVal' = r.retVal
                Rejects(nrc) == /\ UNCHANGED <<g_Calibration, g_CalibrationSessions,
                                               g_SampleData>>
                                /\ RespondsNegative(UDS_SID_ROUTINE_CONTROL, nrc)
            IN IF g_CurrentSession = DIAG_SESSION_EXTENDED
               THEN IF subFunction = 1
                    THEN IF /\ routineId >= RID_START_CALIBRATION_FL
                            /\ routineId <= RID_START_CALIBRATION_RR
                         THEN Runs(RID_StartCalibration(g_Calibration, ManagerState,
                                                        routineId))
                         ELSE IF routineId = RID_VALIDATE_CALIBRATION
                         THEN Runs(RID_ValidateCalibration(g_Calibration, ManagerState))
                         ELSE IF routineId = RID_RESET_CALIBRATION_ALL
                         THEN Runs(RID_ResetCalibrationAll(g_Calibration, ManagerState))
                         ELSE IF routineId = RID_ABS_SELF_TEST
                         THEN Runs(RID_ABSSelfTest(g_Calibration, ManagerState))
                         ELSE Rejects(UDS_NRC_REQUEST_OUT_OF_RANGE)
                    ELSE Rejects(UDS_NRC_SUBFUNCTION_NOT_SUPPORTED)
               ELSE Rejects(UDS_NRC_CONDITIONS_NOT_CORRECT)
       ELSE /\ UNCHANGED <<g_Calibration, g_CalibrationSessions, g_SampleData>>
            /\ RespondsNegative(UDS_SID_ROUTINE_CONTROL,
                                UDS_NRC_INCORRECT_MESSAGE_LENGTH)
    /\ UNCHANGED <<sbwVars, g_CalibrationManager_Initialized,
                   detVars, g_SpeedData, g_CalibrationConfig, g_CalibrationHistory,
                   nvmBlocks, rteDtcRequests, retVal, g_DTCTable, g_ActiveDTCCount,
                   g_CurrentSession>>

\* The services of g_UDSServiceTable.
g_UDSServiceTable ==
    { UDS_SID_DIAGNOSTIC_SESSION_CONTROL, UDS_SID_ECU_RESET,
      UDS_SID_CLEAR_DIAGNOSTIC_INFORMATION, UDS_SID_READ_DTC_INFORMATION,
      UDS_SID_READ_DATA_BY_IDENTIFIER, UDS_SID_WRITE_DATA_BY_IDENTIFIER,
      UDS_SID_IO_CONTROL_BY_IDENTIFIER, UDS_SID_ROUTINE_CONTROL }

\* DiagnosticService_ProcessUDSRequest(&request, &response)
DiagnosticService_ProcessUDSRequest(request) ==
    LET sid == request.serviceId
    IN IF sid \in g_UDSServiceTable
       THEN CASE sid = UDS_SID_DIAGNOSTIC_SESSION_CONTROL ->
                    UDS_DiagnosticSessionControl(request)
              [] sid = UDS_SID_ECU_RESET -> UDS_ECUReset(request)
              [] sid = UDS_SID_CLEAR_DIAGNOSTIC_INFORMATION ->
                    UDS_ClearDiagnosticInformation(request)
              [] sid = UDS_SID_WRITE_DATA_BY_IDENTIFIER ->
                    UDS_WriteDataByIdentifier(request)
              [] sid = UDS_SID_IO_CONTROL_BY_IDENTIFIER ->
                    UDS_InputOutputControlByIdentifier(request)
              [] sid = UDS_SID_READ_DTC_INFORMATION ->
                    UDS_ReadDTCInformation(request)
              [] sid = UDS_SID_READ_DATA_BY_IDENTIFIER ->
                    UDS_ReadDataByIdentifier(request)
              [] sid = UDS_SID_ROUTINE_CONTROL -> UDS_RoutineControl(request)
       ELSE /\ RespondsNegative(sid, UDS_NRC_SERVICE_NOT_SUPPORTED)
            /\ UNCHANGED <<sbwVars, detVars, g_Calibration, calVars, g_DTCTable,
                           g_ActiveDTCCount, g_CurrentSession>>

\* DiagnosticService_SetDTC(dtcNumber, active, wheelPos)
SetDTC(dtcNumber, active, wheelPos) ==
    /\ LET r == DiagnosticService_SetDTC(DtcState, dtcNumber, active, wheelPos)
       IN /\ \A i \in DtcSlots : r[2].table[i].occurrenceCount <= MaxOccurrences
          /\ diagRetVal' = r[1]
          /\ g_DTCTable' = r[2].table
          /\ g_ActiveDTCCount' = r[2].count
    /\ UNCHANGED <<sbwVars, detVars, g_Calibration, calVars, g_CurrentSession, udsResponse>>

\* DiagnosticService_MainFunction()
DiagnosticService_MainFunction ==
    /\ LET d == DiagnosticService_MonitorMalfunctions(DtcState, g_MalfunctionStatus)
       IN /\ \A i \in DtcSlots : d.table[i].occurrenceCount <= MaxOccurrences
          /\ g_DTCTable' = d.table
          /\ g_ActiveDTCCount' = d.count
    /\ diagRetVal' = E_OK
    /\ UNCHANGED <<sbwVars, detVars, g_Calibration, calVars, g_CurrentSession, udsResponse>>

(***************************************************************************)
(* Inputs of the diagnostic specification.  The response buffer always     *)
(* holds the three bytes of a negative response (maxResponseLength >= 3).  *)
(***************************************************************************)
UdsRequest(serviceId, requestData, maxResponseLength) ==
    [serviceId |-> serviceId, requestData |-> requestData,
     maxResponseLength |-> maxResponseLength]

ResponseCapacities == {3, 8}

WriteRequestData ==
    { <<241, 16, 115>>,        \* DID 0xF110, factor 1.15
      <<241, 16, 40>>,         \* DID 0xF110, factor 0.40 (not accepted)
      <<241, 0, 115>>,         \* DID 0xF100: not writable
      <<241, 16>> }            \* too short

RoutineRequestData ==
    { <<1, 2, 1, 0>>,          \* start routine 0x0201 (calibration, front left)
      <<1, 2, 32, 0>>,         \* start routine 0x0220 (reset all calibrations)
      <<1, 9, 153, 0>>,        \* start routine 0x0999: unknown
      <<2, 2, 1, 0>>,          \* stop routine: sub-function not supported
      <<1, 2, 1>> }            \* too short

ClearRequestData ==
    { <<255, 255, 255>>,       \* every DTC
      <<193, 68, 0>>,          \* 0xC14400 speed plausibility error
      <<18, 52, 86>>,          \* 0x123456: never allocated
      <<0, 0, 0>>,             \* 0x000000
      <<255, 255>> }           \* too short

SessionRequestData == { <<1>>, <<2>>, <<3>>, <<4>>, <<5>>, <<>> }

\* Read-DTC requests: report by status mask with and without the mask,
\* report supported, an unsupported sub-function, no sub-function.
ReadDtcRequestData == { <<2, 255>>, <<2>>, <<10>>, <<1>>, <<>> }

\* Read-data requests: wheel 0's speed data (0xF100), an identifier that is
\* not served (0xF1F0), half an identifier.
ReadDataRequestData == { <<241, 0>>, <<241, 240>>, <<241>> }

\* Requests of the diagnostic specification: every service but the clearing
\* of diagnostic information.
UdsRequestInputs ==
    { UdsRequest(UDS_SID_DIAGNOSTIC_SESSION_CONTROL, data, n) :
        data \in SessionRequestData, n \in ResponseCapacities }
    \cup { UdsRequest(UDS_SID_ECU_RESET, <<1>>, n) : n \in ResponseCapacities }
    \cup { UdsRequest(UDS_SID_WRITE_DATA_BY_IDENTIFIER, data, n) :
             data \in WriteRequestData, n \in ResponseCapacities }
    \cup { UdsRequest(UDS_SID_IO_CONTROL_BY_IDENTIFIER, <<>>, n) :
             n \in ResponseCapacities }
    \cup { UdsRequest(UDS_SID_ROUTINE_CONTROL, data, n) :
             data \in RoutineRequestData, n \in ResponseCapacities }
    \cup { UdsRequest(UDS_SID_READ_DTC_INFORMATION, data, n) :
             data \in ReadDtcRequestData, n \in ResponseCapacities }
    \cup { UdsRequest(UDS_SID_READ_DATA_BY_IDENTIFIER, data, n) :
             data \in ReadDataRequestData, n \in ResponseCapacities }
    \cup { UdsRequest(39, <<1>>, n) : n \in ResponseCapacities }   \* 0x27: no handler

\* Requests of the DTC specification: clearing of diagnostic information.
ClearRequestInputs ==
    { UdsRequest(UDS_SID_CLEAR_DIAGNOSTIC_INFORMATION, data, 8) :
        data \in ClearRequestData }

\* DTCs set through DiagnosticService_SetDTC by other components.
SetDtcInputs == { DTC_ABS_SYSTEM_MALFUNCTION }

\* Vehicle data of the DTC specification: wheel 1 at 100 km/h, the other
\* wheels at 60 km/h.
DiagVehicleDataInputs ==
    { VehicleDataOf(<<600, 1000, 600, 600>>, AllValid, NoAcceleration, FALSE) }

\* The state after DiagnosticService_Init.
InitDiagnosticService ==
    /\ g_DTCTable = [i \in DtcSlots |-> ZeroDTCInfo]
    /\ g_ActiveDTCCount = 0
    /\ g_CurrentSession = DIAG_SESSION_DEFAULT
    /\ udsResponse = <<>>
    /\ diagRetVal = E_OK

(***************************************************************************)
(* Seatbelt warning system (Seatbelt_Sensor_IF, Occupancy_Sensor_IF, Rte,  *)
(* NvM, SeatbeltWarning_Logic).  Times in milliseconds.  The timestamp of  *)
(* an RTE signal is written and never read, and is left out.               *)
(***************************************************************************)
OCC_EMPTY == 0
OCC_OCCUPIED == 1
OCC_UNKNOWN == 2
IGN_OFF == 0
IGN_ON == 1
VALIDITY_VALID == 0
VALIDITY_INVALID == 1

\* longest time the raw latch input keeps one value
MaxSameStateMs == 600
\* longest time advanced after the raw occupancy input was set
MaxHeldMs == 400

\* static CalParams cal of NvM.c, returned by NvM_GetCal().
NvM_GetCal ==
    [latch_on_delay_ms |-> 50, unlatch_on_delay_ms |-> 500,
     occupancy_debounce_ms |-> 300, speed_threshold_kph |-> 10,
     door_grace_ms |-> 2000]

\* An RTE signal without its timestamp.
RteSignal(v, validity) == [value |-> v, validity |-> validity]

\* Seatbelt_Sensor_IF_SetRaw(v), for a value that differs from the present one.
Seatbelt_Sensor_IF_SetRaw(v) ==
    /\ v # rawLatch
    /\ rawLatch' = v
    /\ UNCHANGED <<detVars, g_Calibration, calVars, diagVars, latch_timer_ms,
                   unlatch_timer_ms, filteredLatch, same_state_ms, last_raw,
                   occVars, rteVars, logicVars>>

\* Seatbelt_Sensor_IF_10ms(); with resetOnLatch = FALSE a latched read leaves
\* the unlatch timer as it is.  Dem_ReportErrorStatus only prints, and the
\* cycle is taken while the raw input has kept its value for at most
\* MaxSameStateMs.
LatchDebounce(resetOnLatch) ==
    LET cal == NvM_GetCal
        latchTimer == IF rawLatch THEN (latch_timer_ms + 10) % 65536 ELSE 0
        unlatchTimer == IF rawLatch
                        THEN IF resetOnLatch THEN 0 ELSE unlatch_timer_ms
                        ELSE (unlatch_timer_ms + 10) % 65536
        filtered == IF rawLatch
                    THEN IF latchTimer >= cal.latch_on_delay_ms
                         THEN TRUE ELSE filteredLatch
                    ELSE IF unlatchTimer >= cal.unlatch_on_delay_ms
                         THEN FALSE ELSE filteredLatch
        sameState == IF last_raw = rawLatch THEN same_state_ms + 10 ELSE 0
    IN /\ sameState <= MaxSameStateMs
       /\ latch_timer_ms' = latchTimer
       /\ unlatch_timer_ms' = unlatchTimer
       /\ filteredLatch' = filtered
       /\ same_state_ms' = sameState
       /\ last_raw' = rawLatch
       /\ seatbeltLatchFiltered' = RteSignal(filtered, VALIDITY_VALID)
       /\ UNCHANGED <<detVars, g_Calibration, calVars, diagVars, rawLatch, occVars,
                      occupancyFiltered, vehicleSpeed, ignitionState, doorClosed,
                      warningRequest, logicVars>>

\* A variant that keeps the unlatch timer over a latched read.
Seatbelt_Sensor_IF_10ms_KeepUnlatchTimer == LatchDebounce(FALSE)

\* Seatbelt_Sensor_IF_10ms()
Seatbelt_Sensor_IF_10ms == LatchDebounce(TRUE)

\* Occupancy_Sensor_IF_SetRaw(v) at the start of an advance_ms call, for a
\* value that differs from the present one.
Occupancy_Sensor_IF_SetRaw(v) ==
    /\ v # rawOcc
    /\ rawOcc' = v
    /\ occHeldMs' = 0
    /\ UNCHANGED <<detVars, g_Calibration, calVars, diagVars, latchVars,
                   occ_timer_ms, filteredOcc, rteVars, logicVars>>

\* Occupancy_Sensor_IF_10ms(), one turn of the loop of advance_ms.
Occupancy_Sensor_IF_10ms ==
    LET cal == NvM_GetCal
        timer == (occ_timer_ms + 10) % 65536
        taken == rawOcc # filteredOcc /\ timer >= cal.occupancy_debounce_ms
        filtered == IF taken THEN rawOcc ELSE filteredOcc
    IN /\ occHeldMs < MaxHeldMs
       /\ occHeldMs' = occHeldMs + 10
       /\ occ_timer_ms' = IF rawOcc = filteredOcc \/ taken THEN 0 ELSE timer
       /\ filteredOcc' = filtered
       /\ occupancyFiltered' = RteSignal(filtered, VALIDITY_VALID)
       /\ UNCHANGED <<detVars, g_Calibration, calVars, diagVars, latchVars, rawOcc,
                      seatbeltLatchFiltered, vehicleSpeed, ignitionState, doorClosed,
                      warningRequest, logicVars>>

\* Rte_Update_SeatbeltLatchFiltered(v, val, ts)
Rte_Update_SeatbeltLatchFiltered(v, val) ==
    /\ seatbeltLatchFiltered' = RteSignal(v, val)
    /\ UNCHANGED <<detVars, g_Calibration, calVars, diagVars, latchVars, occVars,
                   occupancyFiltered, vehicleSpeed, ignitionState, doorClosed,
                   warningRequest, logicVars>>

\* Rte_Update_OccupancyFiltered(v, val, ts)
Rte_Update_OccupancyFiltered(v, val) ==
    /\ occupancyFiltered' = RteSignal(v, val)
    /\ UNCHANGED <<detVars, g_Calibration, calVars, diagVars, latchVars, occVars,
                   seatbeltLatchFiltered, vehicleSpeed, ignitionState, doorClosed,
                   warningRequest, logicVars>>

\* Rte_Update_VehicleSpeed(v, val, ts)
Rte_Update_VehicleSpeed(v, val) ==
    /\ vehicleSpeed' = RteSignal(v, val)
    /\ UNCHANGED <<detVars, g_Calibration, calVars, diagVars, latchVars, occVars,
                   seatbeltLatchFiltered, occupancyFiltered, ignitionState, doorClosed,
                   warningRequest, logicVars>>

\* Rte_Update_IgnitionState(v, val, ts)
Rte_Update_IgnitionState(v, val) ==
    /\ ignitionState' = RteSignal(v, val)
    /\ UNCHANGED <<detVars, g_Calibration, calVars, diagVars, latchVars, occVars,
                   seatbeltLatchFiltered, occupancyFiltered, vehicleSpeed, doorClosed,
                   warningRequest, logicVars>>

\* Rte_Update_DoorClosed(v, val, ts)
Rte_Update_DoorClosed(v, val) ==
    /\ doorClosed' = RteSignal(v, val)
    /\ UNCHANGED <<detVars, g_Calibration, calVars, diagVars, latchVars, occVars,
                   seatbeltLatchFiltered, occupancyFiltered, vehicleSpeed,
                   ignitionState, warningRequest, logicVars>>

\* SeatbeltWarning_Logic_10ms()
SeatbeltWarning_Logic_10ms ==
    LET cal == NvM_GetCal
        latch == seatbeltLatchFiltered
        occ == occupancyFiltered
        spd == vehicleSpeed
        ign == ignitionState
        door == doorClosed
        grace == IF doorGraceRemaining > 0
                 THEN IF door.value /\ door.validity = VALIDITY_VALID
                      THEN IF doorGraceRemaining >= 10
                           THEN doorGraceRemaining - 10 ELSE 0
                      ELSE cal.door_grace_ms
                 ELSE doorGraceRemaining
        gate == /\ ign.value = IGN_ON
                /\ spd.value >= cal.speed_threshold_kph
                /\ grace = 0
        inputsValid == /\ occ.validity = VALIDITY_VALID
                       /\ latch.validity = VALIDITY_VALID
        output == IF gate /\ inputsValid /\ occ.value = OCC_OCCUPIED /\ ~latch.value
                  THEN 2 ELSE 0
    IN /\ doorGraceRemaining' = grace
       /\ warningRequest' = output
       /\ doorClosedMs' = IF door.value
                          THEN IF doorClosedMs + 10 < cal.door_grace_ms
                               THEN doorClosedMs + 10 ELSE cal.door_grace_ms
                          ELSE 0
       /\ UNCHANGED <<detVars, g_Calibration, calVars, diagVars, latchVars, occVars,
                      seatbeltLatchFiltered, occupancyFiltered, vehicleSpeed,
                      ignitionState, doorClosed>>

\* The statics of the seatbelt components and SeatbeltWarning_Logic_Init().
InitSeatbeltWarning ==
    /\ rawLatch = TRUE
    /\ latch_timer_ms = 0
    /\ unlatch_timer_ms = 0
    /\ filteredLatch = TRUE
    /\ same_state_ms = 0
    /\ last_raw = TRUE
    /\ rawOcc = OCC_EMPTY
    /\ occ_timer_ms = 0
    /\ filteredOcc = OCC_EMPTY
    /\ occHeldMs = 0
    /\ seatbeltLatchFiltered = RteSignal(FALSE, VALIDITY_VALID)
    /\ occupancyFiltered = RteSignal(OCC_EMPTY, VALIDITY_VALID)
    /\ vehicleSpeed = RteSignal(0, VALIDITY_VALID)
    /\ ignitionState = RteSignal(IGN_OFF, VALIDITY_VALID)
    /\ doorClosed = RteSignal(FALSE, VALIDITY_VALID)
    /\ warningRequest = 0
    /\ doorGraceRemaining = NvM_GetCal.door_grace_ms
    /\ doorClosedMs = 0

(***************************************************************************)
(* Initial state: after SpeedSensor_Init and ABS_MalfunctionDetection_Init.*)
(***************************************************************************)
InitDetector ==
    /\ g_MalfunctionStatus = [w \in WheelPositions |-> InitialMalfunctionStatus]
    /\ g_DebounceCounters = [w \in WheelPositions |-> 0]
    /\ g_ConsecutiveErrorCount = [w \in WheelPositions |-> 0]
    /\ g_SystemState = ABS_STATE_MONITORING
    /\ g_DetectionParams = ABS_InitDefaultParameters
    /\ cycleCount = 0

Init ==
    /\ InitDetector
    /\ InitSeatbeltWarning
    /\ InitCalibrationManager
    /\ InitDiagnosticService
    /\ g_VehicleData = ZeroVehicleData
    /\ g_Calibration = [w \in WheelPositions |-> DefaultCalibration]
    /\ referenceSpeed = -1

(***************************************************************************)
(* Detector specification: vehicle data updates, calibration changes and   *)
(* detection cycles in any order.                                          *)
(***************************************************************************)
NextDet ==
    \/ \E vd \in VehicleDataInputs : ABS_UpdateVehicleData(vd)
    \/ \E w \in CalibratedWheels, cf \in CorrectionFactorInputs : SetCorrectionFactor(w, cf)
    \/ ABS_MalfunctionDetection_MainFunction

SpecDet == Init /\ [][NextDet]_vars

(***************************************************************************)
(* Calibration specification: requests, cancellations, applications,       *)
(* configuration changes, speed samples and calibration cycles in any      *)
(* order.                                                                  *)
(***************************************************************************)
NextCal ==
    \/ \E request \in RequestInputs : StartCalibration(request)
    \/ \E w \in CalibrationWheels : CancelCalibration(w)
    \/ \E w \in CalibrationWheels, saveToNvm \in BOOLEAN, writeResult \in {NVM_REQ_OK, E_NOT_OK} :
          ApplyCalibration(w, saveToNvm, writeResult)
    \/ \E config \in ConfigInputs : SetConfig(config)
    \/ \E w \in CalibrationWheels, speedData \in SpeedDataInputs :
          StoreSpeedData(w, speedData)
    \/ CalibrationManager_MainFunction

SpecCal == Init /\ [][NextCal]_vars

(***************************************************************************)
(* Persistence specification: calibration sessions of one request, direct  *)
(* SpeedSensor_SetCalibration calls, configuration changes, factory resets *)
(* and loads from the persistence service in any order.                    *)
(***************************************************************************)
NextNvm ==
    \/ \E request \in NvmRequestInputs : StartCalibration(request)
    \/ \E w \in CalibrationWheels : CancelCalibration(w)
    \/ \E w \in CalibrationWheels, saveToNvm \in BOOLEAN,
          writeResult \in {NVM_REQ_OK, E_NOT_OK} :
          ApplyCalibration(w, saveToNvm, writeResult)
    \/ \E config \in NvmConfigInputs : SetConfig(config)
    \/ \E w \in CalibrationWheels, speedData \in NvmSpeedDataInputs :
          StoreSpeedData(w, speedData)
    \/ CalibrationManager_MainFunction
    \/ \E w \in CalibrationWheels, cf \in SetCalibrationFactorInputs :
          SetCorrectionFactor(w, cf)
    \/ \E w \in CalibrationWheels, writeResult \in {NVM_REQ_OK, E_NOT_OK} :
          ResetToFactory(w, writeResult)
    \/ \E w \in CalibrationWheels, readResult \in {NVM_REQ_OK, E_NOT_OK},
          writeResult \in {NVM_REQ_OK, E_NOT_OK} :
          \E loaded \in ReadableBlocks(w) :
             LoadFromNvm(w, readResult, loaded, writeResult)

SpecNvm == Init /\ [][NextNvm]_vars

(***************************************************************************)
(* Diagnostic specification: UDS requests other than clear requests,       *)
(* reports of the system-malfunction code and monitoring steps, in any     *)
(* order.                                                                  *)
(***************************************************************************)
NextDiag ==
    \/ \E request \in UdsRequestInputs : DiagnosticService_ProcessUDSRequest(request)
    \/ \E active \in BOOLEAN : SetDTC(DTC_ABS_SYSTEM_MALFUNCTION, active, 0)
    \/ DiagnosticService_MainFunction

SpecDiag == Init /\ [][NextDiag]_vars

(***************************************************************************)
(* DTC specification: clear requests, DTC reports, monitoring steps,       *)
(* vehicle data updates and detection cycles in any order.                 *)
(***************************************************************************)
NextDtc ==
    \/ \E request \in ClearRequestInputs : DiagnosticService_ProcessUDSRequest(request)
    \/ \E dtcNumber \in SetDtcInputs : SetDTC(dtcNumber, TRUE, 0)
    \/ DiagnosticService_MainFunction
    \/ \E vd \in DiagVehicleDataInputs : ABS_UpdateVehicleData(vd)
    \/ ABS_MalfunctionDetection_MainFunction

SpecDtc == Init /\ [][NextDtc]_vars

(***************************************************************************)
(* DTC report specification: DiagnosticService_SetDTC called with any code *)
(* of its uint32 parameter's range that matters to the table (0 and an     *)
(* ABS code), active or not, clear requests and monitoring steps.          *)
(***************************************************************************)
ReportedDtcInputs == { 0, DTC_ABS_SYSTEM_MALFUNCTION }

NextReport ==
    \/ \E dtcNumber \in ReportedDtcInputs, active \in BOOLEAN :
          SetDTC(dtcNumber, active, 0)
    \/ \E request \in ClearRequestInputs : DiagnosticService_ProcessUDSRequest(request)
    \/ DiagnosticService_MainFunction

SpecReport == Init /\ [][NextReport]_vars

(***************************************************************************)
(* Properties of the detector.                                             *)
(***************************************************************************)
\* A step of the detector specification that is a detection cycle.
IsDetectionCycle == cycleCount' = cycleCount + 1

\* C1: a record is confirmed only if a fault was detected in each of the
\* preceding consecutive cycles spanning at least the debounce interval;
\* g_ConsecutiveErrorCount[w] is the number of cycles, up to the last one,
\* in which a check tripped without interruption.
C1_ConfirmedOnlyAfterUninterruptedDebounce ==
    \A w \in WheelPositions :
        g_MalfunctionStatus[w].confirmedMalfunction
            => g_ConsecutiveErrorCount[w] * ABS_DETECTION_CYCLE_MS
                   >= g_DetectionParams.debounceTimeMs

\* C1: the state after detection, no detection, then four detections: the
\* record is confirmed on its fifth detection, only four of them consecutive.
C1_ConfirmedAfterInterruptedDetections ==
    \E w \in WheelPositions :
        /\ g_MalfunctionStatus[w].confirmedMalfunction
        /\ g_MalfunctionStatus[w].occurrenceCount = 5
        /\ g_ConsecutiveErrorCount[w] = 4
        /\ g_DebounceCounters[w] = ABS_DEBOUNCE_TIME_MS

\* C2: a detection cycle that starts with a confirmed record and in which no
\* check trips for that wheel leaves the record unconfirmed with a debounce
\* timer of zero.
C2_NoTripCycleUnconfirms ==
    [][IsDetectionCycle =>
         \A w \in WheelPositions :
            (/\ g_MalfunctionStatus[w].confirmedMalfunction
             /\ ~WheelDetection(g_VehicleData, g_Calibration,
                                g_DetectionParams, w).detected)
                => /\ ~g_MalfunctionStatus'[w].confirmedMalfunction
                   /\ g_DebounceCounters'[w] = 0]_vars

\* C2: the state after such a cycle: no consecutive detection, still
\* confirmed, and the timer already at one cycle period again.
C2_StillConfirmedAfterNoTripCycle ==
    \E w \in WheelPositions :
        /\ g_MalfunctionStatus[w].confirmedMalfunction
        /\ g_MalfunctionStatus[w].isActive
        /\ g_ConsecutiveErrorCount[w] = 0
        /\ g_DebounceCounters[w] = ABS_DETECTION_CYCLE_MS

\* The scenario of C10: four valid wheels at 60 km/h, wheel w with correction
\* factor 1.15, every other wheel with the default calibration.
ScenarioCalibration(w) ==
    [v \in WheelPositions |->
        IF v = w THEN [DefaultCalibration EXCEPT !.correctionFactor = 1150]
        ELSE DefaultCalibration]

\* Four scenario cycles have run for wheel w: every detection of wheel w so
\* far was one of four consecutive ones, and no other wheel ever had a fault.
ScenarioBeforeFifthCycle(w) ==
    /\ g_VehicleData = AllSixty
    /\ g_Calibration = ScenarioCalibration(w)
    /\ g_ConsecutiveErrorCount[w] = 4
    /\ g_MalfunctionStatus[w].occurrenceCount = 4
    /\ \A v \in WheelPositions \ {w} :
          g_MalfunctionStatus[v] = InitialMalfunctionStatus

\* The record of the miscalibrated wheel after the fifth scenario cycle.
ScenarioRecord(severity) ==
    [malfunctionType |-> ABS_MALFUNCTION_SPEED_SENSOR_MISCALIBRATION,
     severity |-> severity, isActive |-> TRUE, occurrenceCount |-> 5,
     deviationValue |-> 150, confirmedMalfunction |-> TRUE]

ScenarioFifthCycleYields(severity) ==
    IsDetectionCycle =>
        \A w \in WheelPositions :
            ScenarioBeforeFifthCycle(w)
                => /\ g_MalfunctionStatus'[w] = ScenarioRecord(severity)
                   /\ \A v \in WheelPositions \ {w} :
                         g_MalfunctionStatus'[v] = InitialMalfunctionStatus

\* C10 (amended): after five scenario cycles the miscalibrated wheel's record
\* is a confirmed miscalibration with deviation 15 % and severity high (15 %
\* is not above the 15 % bound of the critical band), and no other wheel has
\* a fault.
C10_ScenarioConfirmsHighSeverity ==
    [][ScenarioFifthCycleYields(ABS_SEVERITY_HIGH)]_vars

\* C10 (as stated): the same with severity critical.
C10_ScenarioConfirmsCriticalSeverity ==
    [][ScenarioFifthCycleYields(ABS_SEVERITY_CRITICAL)]_vars

\* C10: the state after the fifth scenario cycle.
C10_ScenarioAfterFifthCycle ==
    \E w \in WheelPositions :
        /\ g_VehicleData = AllSixty
        /\ g_Calibration = ScenarioCalibration(w)
        /\ g_ConsecutiveErrorCount[w] = 5
        /\ g_MalfunctionStatus[w] = ScenarioRecord(ABS_SEVERITY_HIGH)
        /\ g_SystemState = ABS_STATE_MALFUNCTION
        /\ \A v \in WheelPositions \ {w} :
              g_MalfunctionStatus[v] = InitialMalfunctionStatus

(***************************************************************************)
(* Properties of the calibration manager.                                  *)
(***************************************************************************)
\* In the coming cycle the session of wheel w stores a sample, has enough
\* samples and an elapsed time budget, and the computation on the samples
\* yields a correction factor inside [minCorrectionFactor,
\* maxCorrectionFactor] with an accuracy of at least 100 - tolerance.
ComputationYieldsValidResult(w) ==
    /\ NextCycleStoresSample(w)
    /\ LET c1 == CalibrationManager_CollectSample(ManagerState, g_SpeedData, w)
           n == Len(c1.samples[w].speedSamples)
           r == CalibrationManager_CalculateCalibration(
                    c1.sessions[w], c1.samples[w], g_CalibrationConfig)
       IN /\ n >= g_CalibrationConfig.minCalibrationSamples
          /\ g_CalibrationSessions[w].request.calibrationTimeMs = 0
          /\ r[1] = E_OK
          /\ r[2].calculatedCorrectionFactor >= g_CalibrationConfig.minCorrectionFactor
          /\ r[2].calculatedCorrectionFactor <= g_CalibrationConfig.maxCorrectionFactor
          /\ r[2].measuredAccuracy
                 >= 1000 - g_CalibrationSessions[w].request.tolerancePercentage

\* C3: a calibration cycle whose computation yields a valid result leaves
\* the session completed with result OK, whatever the configured absolute
\* timeout.
C3_ValidComputationCompletesSession ==
    [][\A w \in WheelPositions :
          (CalibrationManager_MainFunction /\ ComputationYieldsValidResult(w))
             => /\ g_CalibrationSessions'[w].state = CALIBRATION_STATE_COMPLETED
                /\ g_CalibrationSessions'[w].result = CALIBRATION_RESULT_OK]_vars

\* C3: the state after such a cycle under an absolute timeout of 0 ms: the
\* computed values are valid for the samples held, and the session has
\* failed with result not-OK.
C3_ValidComputationOverriddenByTimeout ==
    \E w \in WheelPositions :
        /\ g_CalibrationSessions[w].sessionActive
        /\ g_CalibrationSessions[w].state = CALIBRATION_STATE_FAILED
        /\ g_CalibrationSessions[w].result = CALIBRATION_RESULT_NOT_OK
        /\ g_CalibrationSessions[w].request.calibrationTimeMs = 0
        /\ g_CalibrationSessions[w].samplesCollected
              >= g_CalibrationConfig.minCalibrationSamples
        /\ g_CalibrationConfig.calibrationTimeoutMs = 0
        /\ CalibrationManager_CalculateCalibration(
               g_CalibrationSessions[w], g_SampleData[w], g_CalibrationConfig)
             = <<E_OK, g_CalibrationSessions[w]>>

\* C4: applying from a completed session, with the write to the NvM service
\* succeeding or not requested, returns OK and leaves the live correction
\* factor and offset equal to the session's computed values.
C4_ApplyFromCompletedSetsLiveCoefficients ==
    [][\A w \in WheelPositions, saveToNvm \in BOOLEAN,
          writeResult \in {NVM_REQ_OK, E_NOT_OK} :
          (/\ ApplyCalibration(w, saveToNvm, writeResult)
           /\ g_CalibrationSessions[w].state = CALIBRATION_STATE_COMPLETED
           /\ g_CalibrationSessions[w].result = CALIBRATION_RESULT_OK
           /\ (~saveToNvm \/ writeResult = NVM_REQ_OK))
             => /\ retVal' = E_OK
                /\ g_Calibration'[w].correctionFactor
                      = g_CalibrationSessions[w].calculatedCorrectionFactor
                /\ g_Calibration'[w].offsetValue
                      = g_CalibrationSessions[w].calculatedOffset]_vars

\* C4: a completed session whose computed correction factor is the lower
\* bound 0.5 of the validation band, after an application that returned
\* not-OK: the live correction factor is not the computed one and nothing
\* was recorded.
C4_LowerBoundFactorNotApplied ==
    \E w \in WheelPositions :
        /\ g_CalibrationSessions[w].state = CALIBRATION_STATE_COMPLETED
        /\ g_CalibrationSessions[w].result = CALIBRATION_RESULT_OK
        /\ g_CalibrationSessions[w].calculatedCorrectionFactor
              = g_CalibrationConfig.minCorrectionFactor
        /\ ~g_CalibrationSessions[w].sessionActive
        /\ retVal = E_NOT_OK
        /\ g_Calibration[w].correctionFactor = 1000
        /\ g_CalibrationHistory[w] = <<>>

\* C5: a start request for a wheel whose session is active returns the busy
\* value CALIBRATION_RESULT_IN_PROGRESS, which is not E_OK, and leaves every
\* session (request, state, result, sample count) and every sample buffer
\* as it was.
C5_StartOnActiveSessionIsBusy ==
    [][\A request \in RequestInputs :
          (/\ StartCalibration(request)
           /\ request.wheelPosition < WHEEL_MAX
           /\ g_CalibrationSessions[request.wheelPosition].sessionActive)
             => /\ retVal' = CALIBRATION_RESULT_IN_PROGRESS
                /\ retVal' # E_OK
                /\ g_CalibrationSessions' = g_CalibrationSessions
                /\ g_SampleData' = g_SampleData]_vars

\* C5: the state after a busy start request on a sampling session that
\* already holds samples.
C5_BusyStartOnSamplingSession ==
    \E w \in WheelPositions :
        /\ g_CalibrationSessions[w].sessionActive
        /\ g_CalibrationSessions[w].state = CALIBRATION_STATE_IN_PROGRESS
        /\ g_SampleData[w].speedSamples # <<>>
        /\ g_CalibrationSessions[w].samplesCollected = Len(g_SampleData[w].speedSamples)
        /\ retVal = CALIBRATION_RESULT_IN_PROGRESS

(***************************************************************************)
(* Session progress specification: start, cancel, configuration changes,   *)
(* speed updates, direct calibration changes and the calibration cycle,    *)
(* which the RTE runs periodically (RE_CalibrationManager_MainCyclic):     *)
(* weak fairness on it.                                                    *)
(***************************************************************************)
\* A request without time budget and one with a budget of 10 s.
LiveRequestInputs ==
    { ManualRequest(w, 500, 1000, timeMs) :
        w \in CalibrationWheels, timeMs \in {0, 10000} }

LiveSpeedDataInputs ==
    { [wheelSpeed |-> 500, speedValid |-> TRUE],
      [wheelSpeed |-> 0, speedValid |-> FALSE] }

NextLive ==
    \/ \E request \in LiveRequestInputs : StartCalibration(request)
    \/ \E w \in CalibrationWheels : CancelCalibration(w)
    \/ \E config \in ConfigInputs : SetConfig(config)
    \/ \E w \in CalibrationWheels, speedData \in LiveSpeedDataInputs :
          StoreSpeedData(w, speedData)
    \/ \E w \in CalibrationWheels, cf \in SetCalibrationFactorInputs :
          SetCorrectionFactor(w, cf)
    \/ CalibrationManager_MainFunction

SpecLive ==
    /\ Init
    /\ [][NextLive]_vars
    /\ WF_vars(CalibrationManager_MainFunction)

(***************************************************************************)
(* Median specification: ABS_CalculateMedianSpeed applied to every vehicle *)
(* data vector with speeds from MedianSpeeds and any validity combination. *)
(***************************************************************************)
\* 20, 40, 60, 80 km/h
MedianSpeeds == {200, 400, 600, 800}

MedianInputs ==
    { [ZeroVehicleData EXCEPT !.wheelSpeed = speeds, !.speedValid = valid] :
        speeds \in [WheelPositions -> MedianSpeeds],
        valid \in [WheelPositions -> BOOLEAN] }

InitMedian ==
    /\ InitDetector
    /\ InitSeatbeltWarning
    /\ InitCalibrationManager
    /\ InitDiagnosticService
    /\ g_VehicleData \in MedianInputs
    /\ g_Calibration = [w \in WheelPositions |-> DefaultCalibration]
    /\ referenceSpeed = -1

\* A direct call of ABS_CalculateMedianSpeed on the current vehicle data.
CalculateMedianSpeed ==
    /\ referenceSpeed = -1
    /\ referenceSpeed' = ABS_CalculateMedianSpeed(g_VehicleData)
    /\ UNCHANGED <<sbwVars, g_MalfunctionStatus, g_DebounceCounters, g_ConsecutiveErrorCount,
                   g_SystemState, g_VehicleData, g_DetectionParams, g_Calibration,
                   cycleCount, calVars, diagVars>>

NextMedian == CalculateMedianSpeed

SpecMedian == InitMedian /\ [][NextMedian]_vars

\* The speeds of the valid wheels of vd in ascending order.
RECURSIVE InsertSorted(_, _)
InsertSorted(s, x) ==
    IF s = <<>> THEN <<x>>
    ELSE IF x <= Head(s) THEN <<x>> \o s
    ELSE <<Head(s)>> \o InsertSorted(Tail(s), x)

RECURSIVE SortedValidSpeedsFrom(_, _)
SortedValidSpeedsFrom(vd, w) ==
    IF w = WHEEL_MAX THEN <<>>
    ELSE IF vd.speedValid[w]
         THEN InsertSorted(SortedValidSpeedsFrom(vd, w + 1), vd.wheelSpeed[w])
         ELSE SortedValidSpeedsFrom(vd, w + 1)

\* The median of a non-empty ascending sequence: the middle element, or the
\* mean of the two middle elements.
MedianOfSorted(s) ==
    IF Len(s) % 2 = 1 THEN s[(Len(s) + 1) \div 2]
    ELSE (s[Len(s) \div 2] + s[Len(s) \div 2 + 1]) \div 2

ValidWheels(vd) == {w \in WheelPositions : vd.speedValid[w]}

\* C9: for every validity combination with at least one valid wheel the
\* reference speed is the median of exactly the valid wheels' speeds (the
\* wheel's own speed when a single wheel is valid).
C9_ReferenceSpeedIsMedianOfValidWheels ==
    (referenceSpeed # -1 /\ ValidWheels(g_VehicleData) # {})
        => referenceSpeed = MedianOfSorted(SortedValidSpeedsFrom(g_VehicleData, 0))

\* C9: a single valid wheel at a speed above zero, and a reference speed of
\* zero.
C9_SingleValidWheelYieldsZero ==
    /\ Cardinality(ValidWheels(g_VehicleData)) = 1
    /\ \A w \in ValidWheels(g_VehicleData) : g_VehicleData.wheelSpeed[w] > 0
    /\ referenceSpeed = 0

\* With two or more valid wheels the reference speed is their median.
MedianOfTwoOrMoreValidWheels ==
    (referenceSpeed # -1 /\ Cardinality(ValidWheels(g_VehicleData)) >= 2)
        => referenceSpeed = MedianOfSorted(SortedValidSpeedsFrom(g_VehicleData, 0))

(***************************************************************************)
(* Properties of the diagnostic service.                                   *)
(***************************************************************************)
\* The length check at the head of the write and routine-control handlers.
PassesLengthCheck(request) ==
    IF request.serviceId = UDS_SID_WRITE_DATA_BY_IDENTIFIER
    THEN Len(request.requestData) >= 3 /\ request.maxResponseLength >= 3
    ELSE Len(request.requestData) >= 4 /\ request.maxResponseLength >= 4

\* C6: a write-data-by-identifier or routine-control request that passes the
\* handler's length check while the session is not extended is answered with
\* 0x7F / service id / 0x22 and changes no calibration coefficient and no
\* calibration session.
C6_NonExtendedSessionRejectsWriteAndRoutine ==
    [][\A request \in UdsRequestInputs :
          (/\ request.serviceId \in {UDS_SID_WRITE_DATA_BY_IDENTIFIER,
                                     UDS_SID_ROUTINE_CONTROL}
           /\ PassesLengthCheck(request)
           /\ g_CurrentSession # DIAG_SESSION_EXTENDED
           /\ DiagnosticService_ProcessUDSRequest(request))
          => /\ udsResponse' = <<UDS_NEGATIVE_RESPONSE, request.serviceId,
                                  UDS_NRC_CONDITIONS_NOT_CORRECT>>
             /\ diagRetVal' = E_OK
             /\ g_Calibration' = g_Calibration
             /\ g_CalibrationSessions' = g_CalibrationSessions
             /\ g_SampleData' = g_SampleData]_vars

\* C6 witness: in the programming session, with a written coefficient and an
\* active calibration session left from the extended session, a routine
\* control request has been answered with conditions-not-correct.
C6_RoutineRejectedInProgrammingSession ==
    /\ g_CurrentSession = DIAG_SESSION_PROGRAMMING
    /\ udsResponse = <<UDS_NEGATIVE_RESPONSE, UDS_SID_ROUTINE_CONTROL,
                       UDS_NRC_CONDITIONS_NOT_CORRECT>>
    /\ g_Calibration[0].correctionFactor = 1150
    /\ g_CalibrationSessions[0].sessionActive

ClearAllRequests ==
    { request \in ClearRequestInputs :
        /\ Len(request.requestData) >= 3
        /\ DtcGroupToDelete(request.requestData) = DTC_GROUP_ALL }

\* Every allocated entry has testFailed, pending and confirmed cleared, and
\* every wheel's record is inactive, unconfirmed, of kind none, debounce 0.
EverythingCleared(table, det) ==
    /\ \A i \in DtcSlots :
          table[i].dtcNumber # 0
          => /\ ~table[i].status.testFailed
             /\ ~table[i].status.pendingDTC
             /\ ~table[i].status.confirmedDTC
    /\ \A w \in WheelPositions :
          /\ ~det.status[w].isActive
          /\ ~det.status[w].confirmedMalfunction
          /\ det.status[w].malfunctionType = ABS_MALFUNCTION_NONE
          /\ det.debounce[w] = 0

\* C7: after a clear request with group 0xFFFFFF every allocated DTC entry
\* has testFailed, pending and confirmed cleared and every wheel's record is
\* inactive, unconfirmed, of kind none with debounce timer zero; the same
\* request issued again on the resulting state gives the same positive
\* response and the same DTC table and records.
C7_ClearAllClearsAndIsIdempotent ==
    [][\A request \in ClearAllRequests :
          DiagnosticService_ProcessUDSRequest(request)
          => LET after == [status |-> g_MalfunctionStatus',
                           debounce |-> g_DebounceCounters',
                           consecutive |-> g_ConsecutiveErrorCount']
                 again == ClearDiagnosticInformation(request, g_DTCTable', after)
             IN /\ udsResponse' = <<UDS_SID_CLEAR_DIAGNOSTIC_INFORMATION
                                       + UDS_POSITIVE_RESPONSE_OFFSET>>
                /\ EverythingCleared(g_DTCTable', after)
                /\ again.response = udsResponse'
                /\ again.table = g_DTCTable'
                /\ again.det = after]_vars

\* C7 witness: a clear-all has been answered positively in a state where an
\* entry that had been confirmed (three occurrences) is cleared and wheel 1's
\* record, which had been active, is inactive.
C7_ConfirmedEntryAndRecordCleared ==
    /\ udsResponse = <<UDS_SID_CLEAR_DIAGNOSTIC_INFORMATION
                         + UDS_POSITIVE_RESPONSE_OFFSET>>
    /\ \E i \in DtcSlots :
          /\ g_DTCTable[i].dtcNumber = DTC_SPEED_PLAUSIBILITY_ERROR
          /\ g_DTCTable[i].occurrenceCount >= 3
          /\ g_DTCTable[i].status = StatusAfterClear
    /\ g_MalfunctionStatus[1].occurrenceCount > 0
    /\ EverythingCleared(g_DTCTable, DetectorState)

\* The clear requests of a single code that no allocated entry carries.
UnmatchedClearRequests ==
    { request \in ClearRequestInputs :
        /\ Len(request.requestData) >= 3
        /\ DtcGroupToDelete(request.requestData) # DTC_GROUP_ALL
        /\ \A i \in DtcSlots :
              g_DTCTable[i].dtcNumber # 0
              => g_DTCTable[i].dtcNumber # DtcGroupToDelete(request.requestData) }

\* C8: a clear request whose code is not 0xFFFFFF and matches no allocated
\* entry (0x000000 included) is answered with 0x7F / 0x14 / 0x31 and changes
\* no slot of the DTC table.
C8_UnmatchedCodeIsRejected ==
    [][\A request \in UnmatchedClearRequests :
          DiagnosticService_ProcessUDSRequest(request)
          => /\ udsResponse' = <<UDS_NEGATIVE_RESPONSE,
                                  UDS_SID_CLEAR_DIAGNOSTIC_INFORMATION,
                                  UDS_NRC_REQUEST_OUT_OF_RANGE>>
             /\ g_DTCTable' = g_DTCTable]_vars

\* C8 witness: a clear request has been answered positively and an
\* unallocated slot carries testNotCompletedSinceLastClear: the request's
\* code was 0x000000.
C8_ZeroCodeClearedAnEmptySlot ==
    /\ udsResponse = <<UDS_SID_CLEAR_DIAGNOSTIC_INFORMATION
                         + UDS_POSITIVE_RESPONSE_OFFSET>>
    /\ \E i \in DtcSlots :
          /\ g_DTCTable[i].dtcNumber = 0
          /\ g_DTCTable[i].status.testNotCompletedSinceLastClear

\* The same statement for the codes other than 0x000000 (holds).
UnmatchedNonZeroCodeIsRejected ==
    [][\A request \in UnmatchedClearRequests :
          (/\ DtcGroupToDelete(request.requestData) # 0
           /\ DiagnosticService_ProcessUDSRequest(request))
          => /\ udsResponse' = <<UDS_NEGATIVE_RESPONSE,
                                  UDS_SID_CLEAR_DIAGNOSTIC_INFORMATION,
                                  UDS_NRC_REQUEST_OUT_OF_RANGE>>
             /\ g_DTCTable' = g_DTCTable]_vars

(***************************************************************************)
(* Properties of the calibration band, sessions and persistence.           *)
(***************************************************************************)
\* C11: in every reachable state every wheel whose live calibration has its
\* validity flag set has a correction factor within
\* [minCorrectionFactor, maxCorrectionFactor] of the current configuration.
C11_ValidCalibrationWithinBand ==
    \A w \in WheelPositions :
       g_Calibration[w].calibrationValid
       => /\ g_Calibration[w].correctionFactor >= g_CalibrationConfig.minCorrectionFactor
          /\ g_Calibration[w].correctionFactor <= g_CalibrationConfig.maxCorrectionFactor

\* C11 witness: under the default configuration (band 0.5 to 1.5) wheel 0's
\* live calibration is valid with correction factor 1.8.
C11_ValidFactorAboveDefaultBand ==
    /\ g_CalibrationConfig = CalibrationManager_InitDefaultConfig
    /\ g_Calibration[0].calibrationValid
    /\ g_Calibration[0].correctionFactor = 1800

\* The cycle about to run computes a calibration for wheel w from enough
\* positive samples, and the computed values miss the band or the accuracy
\* bound.
ComputationMissesBound(w) ==
    /\ NextCycleStoresSample(w)
    /\ LET c1 == CalibrationManager_CollectSample(ManagerState, g_SpeedData, w)
           n == Len(c1.samples[w].speedSamples)
           positive == {i \in 1 .. n : /\ c1.samples[w].speedSamples[i] > 0
                                       /\ c1.samples[w].referenceSamples[i] > 0}
           r == CalibrationManager_CalculateCalibration(
                    c1.sessions[w], c1.samples[w], g_CalibrationConfig)
       IN /\ n >= g_CalibrationConfig.minCalibrationSamples
          /\ g_CalibrationSessions[w].request.calibrationTimeMs = 0
          /\ Cardinality(positive) >= g_CalibrationConfig.minCalibrationSamples
          /\ \/ r[2].calculatedCorrectionFactor < g_CalibrationConfig.minCorrectionFactor
             \/ r[2].calculatedCorrectionFactor > g_CalibrationConfig.maxCorrectionFactor
             \/ r[2].measuredAccuracy
                    < 1000 - g_CalibrationSessions[w].request.tolerancePercentage

\* The absolute session timeout of wheel w has elapsed.
SessionTimedOut(w) ==
    (currentTime - g_CalibrationSessions[w].startTimestamp)
        >= g_CalibrationConfig.calibrationTimeoutMs

EntersCompleted(w) ==
    /\ g_CalibrationSessions[w].state # CALIBRATION_STATE_COMPLETED
    /\ g_CalibrationSessions'[w].state = CALIBRATION_STATE_COMPLETED

CompletedWithinBounds(w) ==
    /\ g_CalibrationSessions'[w].calculatedCorrectionFactor
          >= g_CalibrationConfig.minCorrectionFactor
    /\ g_CalibrationSessions'[w].calculatedCorrectionFactor
          <= g_CalibrationConfig.maxCorrectionFactor
    /\ g_CalibrationSessions'[w].measuredAccuracy
          >= 1000 - g_CalibrationSessions'[w].request.tolerancePercentage

C13_ApplyOutsideCompletedChangesNothing ==
    [][\A w \in CalibrationWheels, saveToNvm \in BOOLEAN,
          writeResult \in {NVM_REQ_OK, E_NOT_OK} :
          (/\ ApplyCalibration(w, saveToNvm, writeResult)
           /\ g_CalibrationSessions[w].state # CALIBRATION_STATE_COMPLETED)
             => /\ retVal' = E_NOT_OK
                /\ UNCHANGED <<g_Calibration, g_CalibrationHistory, nvmBlocks>>]_vars

\* C13: a failed session holding a computed factor of 1.2 that the live
\* calibration does not have, with the last call having returned E_NOT_OK.
C13_FailedSessionNotApplied ==
    \E w \in CalibrationWheels :
        /\ g_CalibrationSessions[w].state = CALIBRATION_STATE_FAILED
        /\ g_CalibrationSessions[w].sessionActive
        /\ g_CalibrationSessions[w].calculatedCorrectionFactor = 1200
        /\ g_Calibration[w] = DefaultCalibration
        /\ g_CalibrationHistory[w] = <<>>
        /\ nvmBlocks[w] = <<>>
        /\ retVal = E_NOT_OK

\* C14: CalibrationManager_ApplyCalibration with saveToNvm = TRUE on a
\* completed session whose write to the NvM service fails returns E_NOT_OK
\* and passes the NvM-error code to the diagnostic service, and the wheel's
\* live correction factor and offset are the session's computed values.
C14_FailedWriteKeepsAppliedCoefficients ==
    [][\A w \in CalibrationWheels :
          (/\ ApplyCalibration(w, TRUE, E_NOT_OK)
           /\ ApplyCalibrationPermitted(w)
           /\ SetCalibrationAccepts(AppliedCalibration(w)))
             => /\ retVal' = E_NOT_OK
                /\ RteDtcId(DTC_CALIBRATION_NVM_ERROR) \in rteDtcRequests'
                /\ g_Calibration'[w].correctionFactor
                      = g_CalibrationSessions[w].calculatedCorrectionFactor
                /\ g_Calibration'[w].offsetValue
                      = g_CalibrationSessions[w].calculatedOffset
                /\ g_Calibration'[w].calibrationValid]_vars

\* C14: the state after such a call: the live factor is the computed 1.2,
\* nothing was written to the wheel's NvM block, the NvM-error code was
\* raised and the call returned E_NOT_OK.
C14_AppliedWithoutPersistedBlock ==
    \E w \in CalibrationWheels :
        /\ g_CalibrationSessions[w].state = CALIBRATION_STATE_COMPLETED
        /\ g_CalibrationSessions[w].calculatedCorrectionFactor = 1200
        /\ g_Calibration[w].correctionFactor = 1200
        /\ Len(g_CalibrationHistory[w]) = 1
        /\ nvmBlocks[w] = <<>>
        /\ RteDtcId(DTC_CALIBRATION_NVM_ERROR) \in rteDtcRequests
        /\ retVal = E_NOT_OK

\* C15: CalibrationManager_CancelCalibration on a wheel whose session is in
\* any state other than idle returns E_OK and leaves the wheel without an
\* active session, so that the next start request for it is accepted.
C15_CancelSucceedsFromEveryNonIdleState ==
    [][\A w \in CalibrationWheels :
          (/\ CancelCalibration(w)
           /\ g_CalibrationSessions[w].state # CALIBRATION_STATE_IDLE)
             => /\ retVal' = E_OK
                /\ ~g_CalibrationSessions'[w].sessionActive]_vars

\* C15: a completed session that a later cycle has made inactive, with
\* nothing applied, reset or loaded, and E_NOT_OK returned by the last call.
C15_CancelRefusedAfterCompletion ==
    \E w \in CalibrationWheels :
        /\ g_CalibrationSessions[w].state = CALIBRATION_STATE_COMPLETED
        /\ ~g_CalibrationSessions[w].sessionActive
        /\ g_CalibrationHistory[w] = <<>>
        /\ RteDtcId(DTC_CALIBRATION_NVM_ERROR) \notin rteDtcRequests
        /\ retVal = E_NOT_OK

\* C16: CalibrationManager_CancelCalibration leaves every wheel's live
\* calibration, history and NvM block unchanged in whatever session state it
\* is called; a successful cancel leaves the session cancelled, a cancelled
\* session leaves that state only through a new start request, and
\* CalibrationManager_ApplyCalibration on a cancelled session returns
\* E_NOT_OK and applies nothing.
C16_CancelAppliesNothing ==
    [][\A w \in CalibrationWheels :
          /\ CancelCalibration(w)
                => /\ UNCHANGED <<g_Calibration, g_CalibrationHistory, nvmBlocks>>
                   /\ g_CalibrationSessions[w].sessionActive
                         => /\ retVal' = E_OK
                            /\ g_CalibrationSessions'[w].state
                                  = CALIBRATION_STATE_CANCELLED
          /\ (/\ g_CalibrationSessions[w].state = CALIBRATION_STATE_CANCELLED
              /\ g_CalibrationSessions'[w].state # CALIBRATION_STATE_CANCELLED)
                => g_CalibrationSessions'[w].state = CALIBRATION_STATE_REQUESTED
          /\ \A saveToNvm \in BOOLEAN, writeResult \in {NVM_REQ_OK, E_NOT_OK} :
                (/\ ApplyCalibration(w, saveToNvm, writeResult)
                 /\ g_CalibrationSessions[w].state = CALIBRATION_STATE_CANCELLED)
                   => /\ retVal' = E_NOT_OK
                      /\ UNCHANGED <<g_Calibration, g_CalibrationHistory,
                                      nvmBlocks>>]_vars

\* C16: a session cancelled after its computation (factor 1.2, accuracy
\* within tolerance), the live calibration still at its defaults, nothing in
\* the history or the NvM block, and E_NOT_OK returned by the last call.
C16_CancelledComputedResultNotApplied ==
    \E w \in CalibrationWheels :
        /\ g_CalibrationSessions[w].state = CALIBRATION_STATE_CANCELLED
        /\ g_CalibrationSessions[w].calculatedCorrectionFactor = 1200
        /\ g_CalibrationSessions[w].request.tolerancePercentage = 1000
        /\ g_Calibration[w] = DefaultCalibration
        /\ g_CalibrationHistory[w] = <<>>
        /\ nvmBlocks[w] = <<>>
        /\ retVal = E_NOT_OK

\* The edges idle -> requested -> sampling -> {completed, failed, cancelled}
\* -> idle, and requested -> cancelled.
SessionStateEdges ==
    {<<CALIBRATION_STATE_IDLE, CALIBRATION_STATE_REQUESTED>>,
     <<CALIBRATION_STATE_REQUESTED, CALIBRATION_STATE_IN_PROGRESS>>,
     <<CALIBRATION_STATE_REQUESTED, CALIBRATION_STATE_CANCELLED>>,
     <<CALIBRATION_STATE_IN_PROGRESS, CALIBRATION_STATE_COMPLETED>>,
     <<CALIBRATION_STATE_IN_PROGRESS, CALIBRATION_STATE_FAILED>>,
     <<CALIBRATION_STATE_IN_PROGRESS, CALIBRATION_STATE_CANCELLED>>,
     <<CALIBRATION_STATE_COMPLETED, CALIBRATION_STATE_IDLE>>,
     <<CALIBRATION_STATE_FAILED, CALIBRATION_STATE_IDLE>>,
     <<CALIBRATION_STATE_CANCELLED, CALIBRATION_STATE_IDLE>>}

\* C17: every change of a wheel's session state follows an edge of
\* idle -> requested -> sampling -> {completed, failed, cancelled} -> idle
\* (or requested -> cancelled); in particular state requested is entered
\* from idle only.
C17_SessionStateFollowsEdges ==
    [][\A w \in WheelPositions :
          g_CalibrationSessions'[w].state # g_CalibrationSessions[w].state
             => <<g_CalibrationSessions[w].state, g_CalibrationSessions'[w].state>>
                   \in SessionStateEdges]_vars

\* C17: a session in state requested that still holds the factor computed
\* by the wheel's previous session: it was entered from a state other than
\* idle.
C17_RequestedAfterCompletedSession ==
    \E w \in CalibrationWheels :
        /\ g_CalibrationSessions[w].state = CALIBRATION_STATE_REQUESTED
        /\ g_CalibrationSessions[w].calculatedCorrectionFactor = 1200
        /\ g_CalibrationSessions[w].samplesCollected = 0

\* The configured sample buffer is within the modelled one, so that the
\* calibration cycle is never held back by MaxSamples.
WithinSampleBound == g_CalibrationConfig.maxCalibrationSamples <= MaxSamples

SessionPending(w) ==
    g_CalibrationSessions[w].state
        \in {CALIBRATION_STATE_REQUESTED, CALIBRATION_STATE_IN_PROGRESS}

SessionEnded(w) ==
    g_CalibrationSessions[w].state
        \in {CALIBRATION_STATE_COMPLETED, CALIBRATION_STATE_FAILED,
             CALIBRATION_STATE_CANCELLED}

\* C18: with the calibration cycle running again and again, every session
\* in state requested or sampling eventually reaches completed, failed or
\* cancelled, whatever its time budget, the validity of the live speed and
\* the number of samples collected.
C18_EverySessionEnds ==
    \A w \in CalibrationWheels :
        (SessionPending(w) /\ WithinSampleBound) ~> SessionEnded(w)

\* C18: a session with a time budget of 10 s sampling with a full sample
\* buffer under the absolute timeout of 30 s: no further cycle changes it.
C18_SamplingWithFullBuffer ==
    \E w \in CalibrationWheels :
        /\ g_CalibrationSessions[w].state = CALIBRATION_STATE_IN_PROGRESS
        /\ g_CalibrationSessions[w].request.calibrationTimeMs = 10000
        /\ g_CalibrationConfig = SmallConfig(CALIBRATION_TIMEOUT_MS)
        /\ Len(g_SampleData[w].speedSamples) = MaxSamples
        /\ ProcessSessions(ManagerState, g_SpeedData, g_CalibrationConfig,
                           WheelOrder).sessions = g_CalibrationSessions

\* C19: CalibrationManager_ResetToFactory leaves the wheel's live
\* calibration at factor 1.0, offset 0.0, 60 pulses per revolution,
\* circumference 2.1 m and valid, from whatever calibration and session
\* state it is called; when the write to the NvM service succeeds the
\* wheel's block holds exactly these values and E_OK is returned, and when
\* it fails the live calibration is the same, the block is as before and
\* E_NOT_OK is returned.
C19_ResetAppliesFactoryDefaults ==
    [][\A w \in CalibrationWheels, writeResult \in {NVM_REQ_OK, E_NOT_OK} :
          ResetToFactory(w, writeResult)
             => /\ g_Calibration'[w] = FactoryCalibration
                /\ IF writeResult = NVM_REQ_OK
                   THEN /\ nvmBlocks'[w] = <<FactoryCalibration>>
                        /\ retVal' = E_OK
                   ELSE /\ nvmBlocks'[w] = nvmBlocks[w]
                        /\ retVal' = E_NOT_OK]_vars

\* C19: the state after a reset whose write failed, called on a wheel whose
\* applied factor 1.2 had been written to its block: the live calibration is
\* the factory one, the block still holds 1.2, E_NOT_OK was returned.
C19_FactoryDefaultsLiveAfterFailedWrite ==
    \E w \in CalibrationWheels :
        /\ g_Calibration[w] = FactoryCalibration
        /\ nvmBlocks[w] # <<>>
        /\ nvmBlocks[w][1].correctionFactor = 1200
        /\ Len(g_CalibrationHistory[w]) = 2
        /\ g_CalibrationHistory[w][2].method = CALIBRATION_METHOD_FACTORY_RESET
        /\ g_CalibrationSessions[w].state = CALIBRATION_STATE_COMPLETED
        /\ retVal = E_NOT_OK

\* C20: after CalibrationManager_ResetToFactory the wheel's history holds
\* no entry from before the reset: at most the entry of the reset itself.
C20_ResetClearsHistory ==
    [][\A w \in CalibrationWheels, writeResult \in {NVM_REQ_OK, E_NOT_OK} :
          ResetToFactory(w, writeResult)
             => g_CalibrationHistory'[w] \in {<<>>, <<FactoryResetHistoryEntry>>}]_vars

\* C20: a history whose first entry is that of an applied manual
\* calibration (factor 1.2) and whose second is that of a factory reset,
\* with the live calibration at the factory values.
C20_AppliedEntrySurvivesReset ==
    \E w \in CalibrationWheels :
        /\ Len(g_CalibrationHistory[w]) = 2
        /\ g_CalibrationHistory[w][1].method = CALIBRATION_METHOD_MANUAL
        /\ g_CalibrationHistory[w][1].newCorrectionFactor = 1200
        /\ g_CalibrationHistory[w][2] = FactoryResetHistoryEntry
        /\ g_Calibration[w] = FactoryCalibration

(***************************************************************************)
(* Properties of automatic calibration, the detector's classification and  *)
(* the diagnostic service.                                                  *)
(***************************************************************************)
\* The condition under which CalibrationManager_AutoCalibrationCheck builds
\* a request for wheel w: the live calibration is invalid or its accuracy is
\* below 90 %.
NeedsAutomaticCalibration(w) ==
    LET v == CalibrationManager_ValidateCalibration(
                 g_Calibration, g_CalibrationConfig, w)
    IN ~v[1] \/ v[2] < 900

\* C21: with automatic calibration enabled and the calibration cycle running
\* again and again, a wheel whose calibration is invalid or below 90 %
\* accuracy eventually has an active session, unless its calibration stops
\* being so.
C21_DegradedWheelGetsSession ==
    \A w \in CalibrationWheels :
        (g_CalibrationConfig.enableAutoCalibration /\ NeedsAutomaticCalibration(w))
           ~> (\/ g_CalibrationSessions[w].sessionActive
               \/ ~NeedsAutomaticCalibration(w)
               \/ ~g_CalibrationConfig.enableAutoCalibration)

\* C21: a wheel with live factor 1.8 (outside the band, accuracy 20 %),
\* automatic calibration enabled, and a session that was never started.
C21_DegradedWheelWithoutSession ==
    \E w \in CalibrationWheels :
        /\ g_CalibrationConfig.enableAutoCalibration
        /\ g_Calibration[w].correctionFactor = 1800
        /\ NeedsAutomaticCalibration(w)
        /\ g_CalibrationSessions[w] = InitialSession
        /\ CalibrationManager_AutoCalibrationCheck(
               ManagerState, g_Calibration, g_CalibrationConfig) = ManagerState

\* C22: at the end of every detection cycle the system state is malfunction
\* if some wheel's record is confirmed with severity high or above,
\* otherwise degraded if some wheel's record is confirmed, otherwise
\* monitoring.
C22_SystemStateAggregatesConfirmedRecords ==
    [][ABS_MalfunctionDetection_MainFunction
         => g_SystemState' =
              IF \E w \in WheelPositions :
                    /\ g_MalfunctionStatus'[w].confirmedMalfunction
                    /\ g_MalfunctionStatus'[w].severity >= ABS_SEVERITY_HIGH
              THEN ABS_STATE_MALFUNCTION
              ELSE IF \E w \in WheelPositions :
                         g_MalfunctionStatus'[w].confirmedMalfunction
                   THEN ABS_STATE_DEGRADED
                   ELSE ABS_STATE_MONITORING]_vars

\* C22: a degraded system: some record is confirmed and every confirmed
\* record has a severity below high.
C22_DegradedByConfirmedLowSeverity ==
    /\ g_SystemState = ABS_STATE_DEGRADED
    /\ \E w \in WheelPositions : g_MalfunctionStatus[w].confirmedMalfunction
    /\ \A w \in WheelPositions :
          g_MalfunctionStatus[w].confirmedMalfunction
             => g_MalfunctionStatus[w].severity < ABS_SEVERITY_HIGH

\* The deviations from the reference speed that wheels with a valid sample
\* produce under the inputs of the detector.
ValidWheelDeviations ==
    UNION {{ABS_CheckSpeedPlausibility(vd, g_DetectionParams, w)[2] :
               w \in {v \in WheelPositions : vd.speedValid[v]}} :
           vd \in VehicleDataInputs}

\* C23: in a detection cycle a wheel whose sample is invalid and whose
\* calibration-drift check does not trip is recorded with fault kind
\* excessive speed difference and a deviation at least as large as every
\* deviation a wheel with a valid sample produces.
C23_InvalidSampleHasMaximalDeviation ==
    [][\A w \in WheelPositions :
          (/\ ABS_MalfunctionDetection_MainFunction
           /\ ~g_VehicleData.speedValid[w]
           /\ g_DetectionParams.enableSpeedPlausibilityCheck
           /\ ~(/\ g_DetectionParams.enableMiscalibrationDetection
                /\ ABS_CheckCalibrationDrift(g_Calibration, g_DetectionParams, w)[1]))
             => /\ g_MalfunctionStatus'[w].malfunctionType
                      = ABS_MALFUNCTION_SPEED_DIFFERENCE_EXCESSIVE
                /\ \A d \in ValidWheelDeviations :
                      g_MalfunctionStatus'[w].deviationValue >= d]_vars

\* C23: a wheel without a valid sample whose record holds fault kind
\* excessive speed difference with deviation 0 and severity low.
C23_InvalidSampleRecordedWithZeroDeviation ==
    \E w \in WheelPositions :
        /\ ~g_VehicleData.speedValid[w]
        /\ g_MalfunctionStatus[w].isActive
        /\ g_MalfunctionStatus[w].malfunctionType
              = ABS_MALFUNCTION_SPEED_DIFFERENCE_EXCESSIVE
        /\ g_MalfunctionStatus[w].deviationValue = 0
        /\ g_MalfunctionStatus[w].severity = ABS_SEVERITY_LOW

\* The record of wheel w is written by the detection cycle that is running.
RecordUpdated(w) ==
    g_MalfunctionStatus'[w].occurrenceCount # g_MalfunctionStatus[w].occurrenceCount

\* Wheel w passes the calibration-drift and the speed-difference check.
PassesEarlierChecks(w) ==
    /\ ~(/\ g_DetectionParams.enableMiscalibrationDetection
         /\ ABS_CheckCalibrationDrift(g_Calibration, g_DetectionParams, w)[1])
    /\ ~(/\ g_DetectionParams.enableSpeedPlausibilityCheck
         /\ ~ABS_CheckSpeedPlausibility(g_VehicleData, g_DetectionParams, w)[1])

\* C24: in a detection cycle with the brake pedal pressed no wheel with a
\* valid sample is assigned fault kind implausible acceleration, whatever
\* its acceleration; with the pedal released a wheel with a valid sample
\* that passes the two earlier checks and has |acceleration| above the
\* threshold is assigned that kind.
C24_BrakingSuppressesAccelerationFault ==
    [][\A w \in WheelPositions :
          (/\ ABS_MalfunctionDetection_MainFunction
           /\ g_VehicleData.speedValid[w])
             => /\ (g_VehicleData.brakePedalPressed /\ RecordUpdated(w))
                      => g_MalfunctionStatus'[w].malfunctionType
                            # ABS_MALFUNCTION_ACCELERATION_IMPLAUSIBLE
                /\ (/\ ~g_VehicleData.brakePedalPressed
                    /\ g_DetectionParams.enableAccelerationCheck
                    /\ PassesEarlierChecks(w)
                    /\ Abs(g_VehicleData.accelerationX[w])
                          > g_DetectionParams.accelerationThreshold)
                      => /\ RecordUpdated(w)
                         /\ g_MalfunctionStatus'[w].malfunctionType
                               = ABS_MALFUNCTION_ACCELERATION_IMPLAUSIBLE]_vars

\* C24: after at least one detection cycle, wheel 1 decelerates with
\* 18 m/s^2 (above the threshold) while the brake pedal is pressed, and its
\* record has never been written.
C24_BrakingWheelWithoutFault ==
    /\ cycleCount > 0
    /\ g_VehicleData.brakePedalPressed
    /\ g_VehicleData.speedValid[1]
    /\ Abs(g_VehicleData.accelerationX[1]) > g_DetectionParams.accelerationThreshold
    /\ g_ConsecutiveErrorCount[1] = 0
    /\ g_MalfunctionStatus[1].occurrenceCount = 0
    /\ ~g_MalfunctionStatus[1].isActive

\* C25: in every reachable state of the DTC table an entry's confirmed bit
\* is set only if its occurrence count is at least 3.
C25_ConfirmedOnlyFromThreeOccurrences ==
    \A i \in DtcSlots :
        g_DTCTable[i].status.confirmedDTC => g_DTCTable[i].occurrenceCount >= 3

\* C25: an allocated entry whose confirmed bit is set with occurrence
\* count 1.
C25_ConfirmedAfterOneOccurrence ==
    \E i \in DtcSlots :
        /\ g_DTCTable[i].dtcNumber = DTC_ABS_SYSTEM_MALFUNCTION
        /\ g_DTCTable[i].status.confirmedDTC
        /\ g_DTCTable[i].occurrenceCount = 1

\* The slots a clear request with the given group affects: every allocated
\* entry for 0xFFFFFF, the allocated entries with that code otherwise.
AffectedSlots(request) ==
    {i \in DtcSlots :
        /\ g_DTCTable[i].dtcNumber # 0
        /\ \/ DtcGroupToDelete(request.requestData) = DTC_GROUP_ALL
           \/ DtcGroupToDelete(request.requestData) = g_DTCTable[i].dtcNumber}

\* C26: a clear request (all or one code) that is answered positively
\* leaves each affected entry allocated with testFailed, pending and
\* confirmed cleared and occurrence count 0, so that three new observations
\* are needed to confirm it again.
C26_ClearResetsStatusAndOccurrences ==
    [][\A request \in ClearRequestInputs :
          (/\ DiagnosticService_ProcessUDSRequest(request)
           /\ Len(request.requestData) >= 3
           /\ udsResponse' = <<UDS_SID_CLEAR_DIAGNOSTIC_INFORMATION
                                  + UDS_POSITIVE_RESPONSE_OFFSET>>)
             => \A i \in AffectedSlots(request) :
                   /\ g_DTCTable'[i].dtcNumber = g_DTCTable[i].dtcNumber
                   /\ ~g_DTCTable'[i].status.testFailed
                   /\ ~g_DTCTable'[i].status.pendingDTC
                   /\ ~g_DTCTable'[i].status.confirmedDTC
                   /\ g_DTCTable'[i].occurrenceCount = 0]_vars

\* C26: after a positively answered clear request the entry of the speed
\* plausibility error has the status of a cleared entry and still counts
\* two occurrences: the next observation confirms it.
C26_ClearedEntryKeepsOccurrences ==
    /\ udsResponse = <<UDS_SID_CLEAR_DIAGNOSTIC_INFORMATION
                         + UDS_POSITIVE_RESPONSE_OFFSET>>
    /\ \E i \in DtcSlots :
          /\ g_DTCTable[i].dtcNumber = DTC_SPEED_PLAUSIBILITY_ERROR
          /\ g_DTCTable[i].status = StatusAfterClear
          /\ g_DTCTable[i].occurrenceCount = 2
          /\ DiagnosticService_UpdateDTCStatus(
                 g_DTCTable, DTC_SPEED_PLAUSIBILITY_ERROR, TRUE)[2][i]
                   .status.confirmedDTC

CarriesValidSessionLevel(request) ==
    /\ request.serviceId = UDS_SID_DIAGNOSTIC_SESSION_CONTROL
    /\ Len(request.requestData) >= 1
    /\ request.requestData[1] >= DIAG_SESSION_DEFAULT
    /\ request.requestData[1] <= DIAG_SESSION_SAFETY_SYSTEM

\* The positive response of UDS_DiagnosticSessionControl for a level.
SessionControlPositiveResponse(level) ==
    <<UDS_SID_DIAGNOSTIC_SESSION_CONTROL + UDS_POSITIVE_RESPONSE_OFFSET,
      level, 0, 50, 1, 244>>

\* C28: the session level is default after initialisation; a
\* session-control request carrying a level of 0x01 to 0x04 always succeeds
\* and sets exactly that level; every other request (session control with
\* another level is answered sub-function-not-supported) and every other
\* step leaves the level unchanged.
C28_ValidSessionRequestAlwaysSucceeds ==
    /\ g_CurrentSession = DIAG_SESSION_DEFAULT
    /\ [][/\ \A request \in UdsRequestInputs :
               DiagnosticService_ProcessUDSRequest(request)
                  => IF CarriesValidSessionLevel(request)
                     THEN /\ g_CurrentSession' = request.requestData[1]
                          /\ udsResponse'
                                = SessionControlPositiveResponse(request.requestData[1])
                     ELSE UNCHANGED g_CurrentSession
          /\ g_CurrentSession' # g_CurrentSession
                  => \E accepted \in UdsRequestInputs :
                         /\ CarriesValidSessionLevel(accepted)
                         /\ DiagnosticService_ProcessUDSRequest(accepted)]_vars

\* C28: as above for the requests whose response buffer holds the six
\* bytes of the positive response; a request with a valid level and a
\* shorter buffer is answered incorrect-message-length and leaves the level
\* unchanged, and session control with a level outside 0x01 to 0x04 and a
\* buffer of six bytes is answered sub-function-not-supported.
C28_SessionChangesOnlyByValidRequest ==
    /\ g_CurrentSession = DIAG_SESSION_DEFAULT
    /\ [][/\ \A request \in UdsRequestInputs :
               DiagnosticService_ProcessUDSRequest(request)
                  => IF CarriesValidSessionLevel(request)
                     THEN IF request.maxResponseLength >= 6
                          THEN /\ g_CurrentSession' = request.requestData[1]
                               /\ udsResponse'
                                     = SessionControlPositiveResponse(
                                           request.requestData[1])
                          ELSE /\ UNCHANGED g_CurrentSession
                               /\ udsResponse'
                                     = <<UDS_NEGATIVE_RESPONSE,
                                         UDS_SID_DIAGNOSTIC_SESSION_CONTROL,
                                         UDS_NRC_INCORRECT_MESSAGE_LENGTH>>
                     ELSE /\ UNCHANGED g_CurrentSession
                          /\ (/\ request.serviceId = UDS_SID_DIAGNOSTIC_SESSION_CONTROL
                              /\ Len(request.requestData) >= 1
                              /\ request.maxResponseLength >= 6)
                                => udsResponse'
                                     = <<UDS_NEGATIVE_RESPONSE,
                                         UDS_SID_DIAGNOSTIC_SESSION_CONTROL,
                                         UDS_NRC_SUBFUNCTION_NOT_SUPPORTED>>
          /\ g_CurrentSession' # g_CurrentSession
                  => \E accepted \in UdsRequestInputs :
                         /\ CarriesValidSessionLevel(accepted)
                         /\ DiagnosticService_ProcessUDSRequest(accepted)]_vars

\* C28: the safety-system session has been entered and a later request was
\* answered sub-function-not-supported by session control.
C28_SessionKeptAfterInvalidLevel ==
    /\ g_CurrentSession = DIAG_SESSION_SAFETY_SYSTEM
    /\ udsResponse = <<UDS_NEGATIVE_RESPONSE, UDS_SID_DIAGNOSTIC_SESSION_CONTROL,
                       UDS_NRC_SUBFUNCTION_NOT_SUPPORTED>>

\* The reason codes of a negative response.
UdsReasonCodes ==
    { UDS_NRC_SERVICE_NOT_SUPPORTED, UDS_NRC_SUBFUNCTION_NOT_SUPPORTED,
      UDS_NRC_INCORRECT_MESSAGE_LENGTH, UDS_NRC_CONDITIONS_NOT_CORRECT,
      UDS_NRC_REQUEST_OUT_OF_RANGE }

\* C29: every request processed by the initialised service yields a response
\* that is handed back for sending (the return value is E_OK): a positive
\* response whose first byte is the service id + 0x40, or a 3-byte negative
\* response (0x7F, service id, reason code); a service id without a handler
\* is answered service-not-supported.
C29_EveryRequestIsAnswered ==
    [][\A request \in UdsRequestInputs :
           DiagnosticService_ProcessUDSRequest(request)
              => /\ diagRetVal' = E_OK
                 /\ \/ /\ Len(udsResponse') >= 1
                       /\ udsResponse'[1]
                            = request.serviceId + UDS_POSITIVE_RESPONSE_OFFSET
                    \/ \E nrc \in UdsReasonCodes :
                          udsResponse'
                            = <<UDS_NEGATIVE_RESPONSE, request.serviceId, nrc>>
                 /\ request.serviceId \notin g_UDSServiceTable
                      => udsResponse'
                           = <<UDS_NEGATIVE_RESPONSE, request.serviceId,
                               UDS_NRC_SERVICE_NOT_SUPPORTED>>]_vars

\* C29: a read-DTC request (report by status mask, no mask byte) has been
\* processed: the handler returned E_NOT_OK after writing two bytes of a
\* positive response.
C29_ReadDtcRequestNotAnswered ==
    /\ diagRetVal = E_NOT_OK
    /\ udsResponse = <<UDS_SID_READ_DTC_INFORMATION + UDS_POSITIVE_RESPONSE_OFFSET, 2>>

(***************************************************************************)
(* Speed processor (SpeedSensor_Swc.c).  Speeds and accelerations in       *)
(* tenths, the wheel circumference in tenths of a metre, time intervals in *)
(* milliseconds.  In this specification g_SpeedData[w] holds wheel w's     *)
(* g_SpeedSensorData entry but for its calibration: the raw sample, the    *)
(* speed data and lastSpeed[w] of SpeedSensor_CalculateSpeed.  The         *)
(* diagnostics counters, which no function reads, are left out.            *)
(***************************************************************************)
SENSOR_STATUS_OK == 0
SENSOR_STATUS_SHORT_CIRCUIT == 1
SENSOR_STATUS_INVALID == 5
SPEED_SENSOR_SAMPLE_RATE_MS == 10
MAX_WHEEL_SPEED_KMH == 3000

RawData(pulseCount, timeInterval, status) ==
    [pulseCount |-> pulseCount, timeInterval |-> timeInterval, status |-> status]

\* g_SpeedSensorData[w] after SpeedSensor_Init.
InitialSensorData ==
    [rawData |-> RawData(0, 0, SENSOR_STATUS_INVALID), wheelSpeed |-> 0,
     wheelSpeedRaw |-> 0, accelerationX |-> 0, speedValid |-> FALSE,
     qualityFactor |-> 0, lastSpeed |-> 0]

\* SpeedSensor_CalculateSpeed on a sensor entry and the wheel's calibration.
SpeedSensor_CalculateSpeed(sensorData, calibration) ==
    IF sensorData.rawData.timeInterval > 0 /\ calibration.pulsesPerRevolution > 0
    THEN LET rawSpeed == (sensorData.rawData.pulseCount * 3600
                            * calibration.wheelCircumference)
                         \div (calibration.pulsesPerRevolution
                                 * sensorData.rawData.timeInterval)
             wheelSpeed == (rawSpeed * calibration.correctionFactor) \div 1000
                           + calibration.offsetValue
         IN [sensorData EXCEPT
               !.wheelSpeedRaw = rawSpeed,
               !.wheelSpeed = wheelSpeed,
               !.accelerationX = ((wheelSpeed - sensorData.lastSpeed) * 1000)
                                 \div SPEED_SENSOR_SAMPLE_RATE_MS,
               !.lastSpeed = wheelSpeed]
    ELSE [sensorData EXCEPT !.wheelSpeed = 0, !.wheelSpeedRaw = 0,
                            !.accelerationX = 0]

\* SpeedSensor_ValidateSpeedData on a sensor entry and the wheel's calibration.
SpeedSensor_ValidateSpeedData(sensorData, calibration) ==
    LET outOfRange == \/ sensorData.wheelSpeed < 0
                      \/ sensorData.wheelSpeed > MAX_WHEEL_SPEED_KMH
        statusNotOk == sensorData.rawData.status # SENSOR_STATUS_OK
        notCalibrated == ~calibration.calibrationValid
        q1 == IF outOfRange \/ statusNotOk THEN 0 ELSE 100
        q2 == IF notCalibrated /\ q1 > 50 THEN 50 ELSE q1
        q3 == IF /\ \/ sensorData.accelerationX > 200
                    \/ sensorData.accelerationX < -200
                 /\ q2 > 30
              THEN 30 ELSE q2
    IN [sensorData EXCEPT
          !.speedValid = ~(outOfRange \/ statusNotOk \/ notCalibrated),
          !.qualityFactor = q3]

\* SpeedSensor_MainFunction() in a cycle in which the RTE delivers the raw
\* sample raw[w] of every wheel w.
SpeedSensor_MainFunction(raw) ==
    /\ g_SpeedData' =
         [w \in WheelPositions |->
            SpeedSensor_ValidateSpeedData(
                SpeedSensor_CalculateSpeed(
                    [g_SpeedData[w] EXCEPT !.rawData = raw[w]], g_Calibration[w]),
                g_Calibration[w])]
    /\ UNCHANGED <<sbwVars, g_CalibrationManager_Initialized,
                   detVars, diagVars, g_Calibration, g_CalibrationSessions,
                   g_SampleData, g_CalibrationConfig, g_CalibrationHistory,
                   nvmBlocks, rteDtcRequests, retVal>>

\* Raw samples: 63 km/h, no elapsed time, 378 km/h, a short circuit, and no
\* elapsed time with a short circuit.
RawDataInputs ==
    { RawData(5, 10, SENSOR_STATUS_OK), RawData(5, 0, SENSOR_STATUS_OK),
      RawData(30, 10, SENSOR_STATUS_OK), RawData(5, 10, SENSOR_STATUS_SHORT_CIRCUIT),
      RawData(5, 0, SENSOR_STATUS_SHORT_CIRCUIT) }

\* The wheels whose raw samples and correction factor vary; the others
\* deliver 63 km/h.
SpeedWheels == {0}

RawSampleInputs ==
    { [w \in WheelPositions |->
         IF w \in SpeedWheels THEN r ELSE RawData(5, 10, SENSOR_STATUS_OK)] :
      r \in RawDataInputs }

InitSpeed ==
    /\ InitDetector
    /\ InitSeatbeltWarning
    /\ InitDiagnosticService
    /\ g_SpeedData = [w \in WheelPositions |-> InitialSensorData]
    /\ g_CalibrationSessions = [w \in WheelPositions |-> InitialSession]
    /\ g_SampleData = [w \in WheelPositions |-> EmptySampleData]
    /\ g_CalibrationConfig = CalibrationManager_InitDefaultConfig
    /\ g_CalibrationHistory = [w \in WheelPositions |-> <<>>]
    /\ nvmBlocks = [w \in WheelPositions |-> <<>>]
    /\ rteDtcRequests = {}
    /\ retVal = E_OK
    /\ g_CalibrationManager_Initialized = TRUE
    /\ g_VehicleData = ZeroVehicleData
    /\ g_Calibration = [w \in WheelPositions |-> DefaultCalibration]
    /\ referenceSpeed = -1

NextSpeed ==
    \/ \E raw \in RawSampleInputs : SpeedSensor_MainFunction(raw)
    \/ \E w \in SpeedWheels, cf \in SetCalibrationFactorInputs :
          SetCorrectionFactor(w, cf)

SpecSpeed == InitSpeed /\ [][NextSpeed]_vars

\* C30: a cycle marks a wheel's speed data invalid when the raw sample's
\* elapsed time is zero, the calibration's pulses-per-revolution is zero,
\* the speed is outside [0, 300 km/h], or the hardware status is not OK.
C30_FaultySampleIsMarkedInvalid ==
    [][\A raw \in RawSampleInputs :
           SpeedSensor_MainFunction(raw)
              => \A w \in WheelPositions :
                    (\/ raw[w].timeInterval = 0
                     \/ g_Calibration[w].pulsesPerRevolution = 0
                     \/ g_SpeedData'[w].wheelSpeed < 0
                     \/ g_SpeedData'[w].wheelSpeed > MAX_WHEEL_SPEED_KMH
                     \/ raw[w].status # SENSOR_STATUS_OK)
                       => ~g_SpeedData'[w].speedValid]_vars

\* The part of C30 the code keeps: a speed outside [0, 300 km/h] or a
\* hardware status other than OK makes the speed data invalid.
OutOfRangeOrBadStatusIsMarkedInvalid ==
    [][\A raw \in RawSampleInputs :
           SpeedSensor_MainFunction(raw)
              => \A w \in WheelPositions :
                    (\/ g_SpeedData'[w].wheelSpeed < 0
                     \/ g_SpeedData'[w].wheelSpeed > MAX_WHEEL_SPEED_KMH
                     \/ raw[w].status # SENSOR_STATUS_OK)
                       => ~g_SpeedData'[w].speedValid]_vars

\* C30: wheel 0's last raw sample has no elapsed time and a good hardware
\* status, and its speed data is valid with a speed of zero.
C30_ZeroElapsedTimeSampleValid ==
    /\ g_SpeedData[0].rawData.timeInterval = 0
    /\ g_SpeedData[0].rawData.status = SENSOR_STATUS_OK
    /\ g_SpeedData[0].speedValid
    /\ g_SpeedData[0].wheelSpeed = 0

(***************************************************************************)
(* SpeedSensor_ValidateSpeedData as a function of the calibration it is    *)
(* given: the speed processor started with wheel 0's calibration drawn     *)
(* from CalibrationCoefficientInputs.                                      *)
(***************************************************************************)
CalibrationCoefficientInputs ==
    { [DefaultCalibration EXCEPT !.correctionFactor = cf, !.calibrationValid = valid] :
        cf \in {1000, 1150}, valid \in BOOLEAN }

InitCoefficients ==
    /\ InitDetector
    /\ InitSeatbeltWarning
    /\ InitDiagnosticService
    /\ g_SpeedData = [w \in WheelPositions |-> InitialSensorData]
    /\ g_CalibrationSessions = [w \in WheelPositions |-> InitialSession]
    /\ g_SampleData = [w \in WheelPositions |-> EmptySampleData]
    /\ g_CalibrationConfig = CalibrationManager_InitDefaultConfig
    /\ g_CalibrationHistory = [w \in WheelPositions |-> <<>>]
    /\ nvmBlocks = [w \in WheelPositions |-> <<>>]
    /\ rteDtcRequests = {}
    /\ retVal = E_OK
    /\ g_CalibrationManager_Initialized = TRUE
    /\ g_VehicleData = ZeroVehicleData
    /\ \E calibration \in CalibrationCoefficientInputs :
          g_Calibration = [w \in WheelPositions |->
                             IF w \in SpeedWheels THEN calibration
                             ELSE DefaultCalibration]
    /\ referenceSpeed = -1

SpecCoefficients == InitCoefficients /\ [][NextSpeed]_vars

AccelerationOnlyLowersQuality ==
    [][\A raw \in RawSampleInputs :
           SpeedSensor_MainFunction(raw)
              => \A w \in WheelPositions :
                    /\ g_SpeedData'[w].qualityFactor \in 0 .. 100
                    /\ (/\ g_Calibration[w].calibrationValid
                        /\ raw[w].timeInterval > 0
                        /\ g_SpeedData'[w].wheelSpeed >= 0
                        /\ g_SpeedData'[w].wheelSpeed <= MAX_WHEEL_SPEED_KMH
                        /\ raw[w].status = SENSOR_STATUS_OK)
                          => /\ g_SpeedData'[w].speedValid
                             /\ Abs(g_SpeedData'[w].accelerationX) > 200
                                  => g_SpeedData'[w].qualityFactor = 30]_vars

NextLatch ==
    \/ \E v \in BOOLEAN : Seatbelt_Sensor_IF_SetRaw(v)
    \/ Seatbelt_Sensor_IF_10ms

SpecLatch == Init /\ [][NextLatch]_vars

NextOcc ==
    \/ \E v \in {OCC_EMPTY, OCC_OCCUPIED, OCC_UNKNOWN} : Occupancy_Sensor_IF_SetRaw(v)
    \/ Occupancy_Sensor_IF_10ms

SpecOcc == Init /\ [][NextOcc]_vars

SpeedInputs == {0, 12}

NextWarn ==
    \/ \E v \in BOOLEAN, val \in {VALIDITY_VALID, VALIDITY_INVALID} :
          Rte_Update_SeatbeltLatchFiltered(v, val)
    \/ \E v \in {OCC_EMPTY, OCC_OCCUPIED, OCC_UNKNOWN} :
          Rte_Update_OccupancyFiltered(v, VALIDITY_VALID)
    \/ \E v \in SpeedInputs : Rte_Update_VehicleSpeed(v, VALIDITY_VALID)
    \/ \E v \in {IGN_OFF, IGN_ON} : Rte_Update_IgnitionState(v, VALIDITY_VALID)
    \/ \E v \in BOOLEAN : Rte_Update_DoorClosed(v, VALIDITY_VALID)
    \/ SeatbeltWarning_Logic_10ms

SpecWarn == Init /\ [][NextWarn]_vars

\* C32: the filtered latch changes from latched to unlatched only in a cycle
\* that ends an uninterrupted run of unlatched reads of at least the
\* off-delay (500 ms, 50 cycles); a read of "latched" starts the run over,
\* and the fiftieth unlatched read in a row sets the filtered value to
\* unlatched.
C32_UnlatchNeedsFullOffDelay ==
    [][Seatbelt_Sensor_IF_10ms
         => /\ (filteredLatch /\ ~filteredLatch')
                 => /\ ~rawLatch
                    /\ ~last_raw'
                    /\ same_state_ms' + 10 >= NvM_GetCal.unlatch_on_delay_ms
            /\ (~rawLatch /\ same_state_ms' + 10 >= NvM_GetCal.unlatch_on_delay_ms)
                 => ~filteredLatch'
            /\ (~rawLatch /\ same_state_ms' + 10 < NvM_GetCal.unlatch_on_delay_ms)
                 => filteredLatch' = filteredLatch]_vars

\* C32: the filtered latch has just become unlatched, in the fiftieth cycle
\* of an unlatched raw input.
C32_UnlatchedAfterFiftyCycles ==
    /\ ~filteredLatch
    /\ ~rawLatch
    /\ unlatch_timer_ms = NvM_GetCal.unlatch_on_delay_ms
    /\ same_state_ms = 490
    /\ seatbeltLatchFiltered = RteSignal(FALSE, VALIDITY_VALID)

\* C33: the filtered occupancy takes a new value only in a cycle in which
\* the raw input has held that value for at least the occupancy debounce
\* time (300 ms) since it was set, for each of the raw values empty,
\* occupied and unknown; and a raw value that differs from the filtered one
\* and has been held for 300 ms is taken.
C33_OccupancyNeedsFullDebounce ==
    [][Occupancy_Sensor_IF_10ms
         => /\ filteredOcc' # filteredOcc
                 => /\ filteredOcc' = rawOcc
                    /\ occHeldMs' >= NvM_GetCal.occupancy_debounce_ms
            /\ (rawOcc # filteredOcc
                  /\ occHeldMs' >= NvM_GetCal.occupancy_debounce_ms)
                 => filteredOcc' = rawOcc]_vars

\* The part of C33 the code keeps: the filtered occupancy changes only after
\* the raw input has differed from it in 30 cycles in a row, whichever values
\* it had in those cycles.
FilteredOccupancyChangesAfterThirtyDifferingReads ==
    [][Occupancy_Sensor_IF_10ms
         => (filteredOcc' # filteredOcc
               => /\ filteredOcc' = rawOcc
                  /\ occ_timer_ms + 10 >= NvM_GetCal.occupancy_debounce_ms)]_vars

\* C33: the filtered occupancy is "unknown" 10 ms after the raw input was
\* set to "unknown".
C33_UnknownTakenAfterTenMs ==
    /\ filteredOcc = OCC_UNKNOWN
    /\ rawOcc = OCC_UNKNOWN
    /\ occHeldMs = 10
    /\ occupancyFiltered = RteSignal(OCC_UNKNOWN, VALIDITY_VALID)

\* C34: the warning request is non-zero only in a cycle in which ignition
\* is ON, the vehicle speed is at least the threshold (10 km/h), the filtered
\* occupancy is occupied, the filtered latch is unlatched, and the door is
\* closed and has been closed for at least the door grace time (2.0 s).
C34_WarningOnlyWhenGated ==
    [][SeatbeltWarning_Logic_10ms
         => (warningRequest' # 0
               => /\ ignitionState.value = IGN_ON
                  /\ vehicleSpeed.value >= NvM_GetCal.speed_threshold_kph
                  /\ occupancyFiltered.value = OCC_OCCUPIED
                  /\ ~seatbeltLatchFiltered.value
                  /\ doorClosed.value
                  /\ doorClosedMs' >= NvM_GetCal.door_grace_ms)]_vars

\* The part of C34 the code keeps: a non-zero warning request needs ignition
\* ON, the speed at the threshold or above, valid occupied and unlatched
\* inputs, and a grace timer that has run out.
WarningOnlyWhenGraceRanOut ==
    [][SeatbeltWarning_Logic_10ms
         => (warningRequest' # 0
               => /\ ignitionState.value = IGN_ON
                  /\ vehicleSpeed.value >= NvM_GetCal.speed_threshold_kph
                  /\ occupancyFiltered = RteSignal(OCC_OCCUPIED, VALIDITY_VALID)
                  /\ seatbeltLatchFiltered = RteSignal(FALSE, VALIDITY_VALID)
                  /\ doorGraceRemaining' = 0)]_vars

\* C34: the warning request is non-zero after a cycle that read the door
\* open.
C34_WarningWithDoorOpen ==
    /\ warningRequest # 0
    /\ ~doorClosed.value
    /\ doorClosedMs = 0
    /\ doorGraceRemaining = 0

(***************************************************************************)
(* Budget specification: sessions whose time budget has elapsed at once    *)
(* (calibrationTimeMs 0), configuration changes that raise and lower the   *)
(* sample counts, valid and invalid live speeds, and calibration cycles.   *)
(***************************************************************************)
\* The small configuration with the given sample counts.
SampleCountConfig(minSamples, maxSamples) ==
    [SmallConfig(CALIBRATION_TIMEOUT_MS) EXCEPT
       !.minCalibrationSamples = minSamples,
       !.maxCalibrationSamples = maxSamples]

\* Minimum 2 and 3 of capacity 3, minimum 2 and 3 of capacity 2, and the
\* absolute timeout that has run out at once.
BudgetConfigInputs ==
    { SampleCountConfig(2, MaxSamples), SampleCountConfig(MaxSamples, MaxSamples),
      SampleCountConfig(2, 2), SampleCountConfig(MaxSamples, 2), SmallConfig(0) }

NextBudget ==
    \/ \E request \in LiveRequestInputs : StartCalibration(request)
    \/ \E w \in CalibrationWheels : CancelCalibration(w)
    \/ \E config \in BudgetConfigInputs : SetConfig(config)
    \/ \E w \in CalibrationWheels, speedData \in LiveSpeedDataInputs :
          StoreSpeedData(w, speedData)
    \/ CalibrationManager_MainFunction

SpecBudget == Init /\ [][NextBudget]_vars

\* TRUE iff wheel w has a session in sampling whose time budget has elapsed
\* and whose buffer holds the configured minimum number of samples.
BudgetElapsedWithEnoughSamples(w) ==
    /\ g_CalibrationSessions[w].sessionActive
    /\ g_CalibrationSessions[w].state = CALIBRATION_STATE_IN_PROGRESS
    /\ (currentTime - g_CalibrationSessions[w].startTimestamp)
         >= g_CalibrationSessions[w].request.calibrationTimeMs
    /\ Len(g_SampleData[w].speedSamples) >= g_CalibrationConfig.minCalibrationSamples

\* C35: in a calibration cycle in which a sampling session's time budget has
\* elapsed and the minimum number of samples has been collected, the session
\* leaves sampling in that cycle (to completed or failed), whether or not a
\* sample was appended in that cycle.
C35_BudgetElapsedLeavesSampling ==
    [][CalibrationManager_MainFunction
         => \A w \in WheelPositions :
               BudgetElapsedWithEnoughSamples(w)
                 => g_CalibrationSessions'[w].state
                      \in {CALIBRATION_STATE_COMPLETED, CALIBRATION_STATE_FAILED}]_vars

\* The part of C35 the code keeps: the session leaves sampling in a cycle
\* that appends a sample, when the time budget has elapsed and the buffer
\* holds the minimum number of samples after the append.
SessionLeavesSamplingWhenSampleAppended ==
    [][CalibrationManager_MainFunction
         => \A w \in WheelPositions :
               (/\ NextCycleStoresSample(w)
                /\ (currentTime - g_CalibrationSessions[w].startTimestamp)
                     >= g_CalibrationSessions[w].request.calibrationTimeMs
                /\ Len(g_SampleData[w].speedSamples) + 1
                     >= g_CalibrationConfig.minCalibrationSamples)
                 => g_CalibrationSessions'[w].state
                      \in {CALIBRATION_STATE_COMPLETED, CALIBRATION_STATE_FAILED}]_vars

\* C35: a session is in sampling with its time budget elapsed and the
\* minimum number of samples collected, its buffer is at capacity, and the
\* absolute timeout has not run out.
C35_SamplingAtCapacityWithBudgetElapsed ==
    \E w \in CalibrationWheels :
       /\ BudgetElapsedWithEnoughSamples(w)
       /\ g_CalibrationSessions[w].samplesCollected
            = Len(g_SampleData[w].speedSamples)
       /\ Len(g_SampleData[w].speedSamples)
            >= g_CalibrationConfig.maxCalibrationSamples
       /\ (currentTime - g_CalibrationSessions[w].startTimestamp)
            < g_CalibrationConfig.calibrationTimeoutMs

(***************************************************************************)
(* Priority specification: the detector with vehicle data in which the     *)
(* checks of wheel 0 trip alone and together, and calibration changes of   *)
(* wheel 0.                                                                *)
(***************************************************************************)
PriorityVehicleDataInputs ==
    { AllSixty,
      \* wheel 0 reads 100 km/h (40 km/h off the median) and accelerates
      \* with 25 m/s^2
      VehicleDataOf(<<1000, 600, 600, 600>>, AllValid, <<250, 0, 0, 0>>, FALSE),
      \* wheel 0 reads 100 km/h
      VehicleDataOf(<<1000, 600, 600, 600>>, AllValid, NoAcceleration, FALSE),
      \* wheel 0 accelerates with 25 m/s^2
      VehicleDataOf(<<600, 600, 600, 600>>, AllValid, <<250, 0, 0, 0>>, FALSE),
      \* wheel 0 has no valid sample
      VehicleDataOf(<<0, 600, 600, 600>>, <<FALSE, TRUE, TRUE, TRUE>>,
                    NoAcceleration, FALSE) }

NextPriority ==
    \/ \E vd \in PriorityVehicleDataInputs : ABS_UpdateVehicleData(vd)
    \/ \E w \in CalibratedWheels, cf \in CorrectionFactorInputs : SetCorrectionFactor(w, cf)
    \/ ABS_MalfunctionDetection_MainFunction

SpecPriority == Init /\ [][NextPriority]_vars

\* TRUE iff the record of wheel w after the cycle carries the fault kind
\* type with the given deviation and the severity that belongs to them.
RecordedFinding(w, type, deviation) ==
    /\ g_MalfunctionStatus'[w].malfunctionType = type
    /\ g_MalfunctionStatus'[w].severity = ABS_DetermineSeverity(type, deviation)
    /\ g_MalfunctionStatus'[w].deviationValue = deviation
    /\ g_ConsecutiveErrorCount'[w] = (g_ConsecutiveErrorCount[w] + 1) % 256

\* C36: per wheel and cycle the record's fault kind, severity and deviation
\* are those of the first check that trips in the order calibration drift,
\* cross-wheel deviation, acceleration; a later check never overrides an
\* earlier one that tripped, and when none trips the wheel's
\* consecutive-error counter is reset to zero.
C36_FirstTrippedCheckWins ==
    [][ABS_MalfunctionDetection_MainFunction
         => \A w \in WheelPositions :
               LET drift == ABS_CheckCalibrationDrift(g_Calibration, g_DetectionParams, w)
                   speed == ABS_CheckSpeedPlausibility(g_VehicleData, g_DetectionParams, w)
                   accel == ABS_CheckAccelerationPlausibility(g_VehicleData,
                                                              g_DetectionParams, w)
               IN /\ drift[1]
                     => RecordedFinding(w, ABS_MALFUNCTION_SPEED_SENSOR_MISCALIBRATION,
                                        drift[2])
                  /\ (~drift[1] /\ ~speed[1])
                     => RecordedFinding(w, ABS_MALFUNCTION_SPEED_DIFFERENCE_EXCESSIVE,
                                        speed[2])
                  /\ (~drift[1] /\ speed[1] /\ ~accel[1])
                     => RecordedFinding(w, ABS_MALFUNCTION_ACCELERATION_IMPLAUSIBLE,
                                        accel[2])
                  /\ (~drift[1] /\ speed[1] /\ accel[1])
                     => /\ g_ConsecutiveErrorCount'[w] = 0
                        /\ g_MalfunctionStatus'[w].malfunctionType
                             = g_MalfunctionStatus[w].malfunctionType
                        /\ g_MalfunctionStatus'[w].severity
                             = g_MalfunctionStatus[w].severity
                        /\ g_MalfunctionStatus'[w].deviationValue
                             = g_MalfunctionStatus[w].deviationValue]_vars

\* C36: all three checks of wheel 0 trip (factor 1.15, 40 km/h off the
\* median, 25 m/s^2) and its record shows the calibration drift of 15 %.
C36_DriftRecordedWhenAllChecksTrip ==
    /\ ABS_CheckCalibrationDrift(g_Calibration, g_DetectionParams, 0)[1]
    /\ ~ABS_CheckSpeedPlausibility(g_VehicleData, g_DetectionParams, 0)[1]
    /\ ~ABS_CheckAccelerationPlausibility(g_VehicleData, g_DetectionParams, 0)[1]
    /\ g_MalfunctionStatus[0].malfunctionType
         = ABS_MALFUNCTION_SPEED_SENSOR_MISCALIBRATION
    /\ g_MalfunctionStatus[0].severity = ABS_SEVERITY_HIGH
    /\ g_MalfunctionStatus[0].deviationValue = 150
    /\ g_ConsecutiveErrorCount[0] = 2

\* Every order in which the four wheels can be processed.
WheelOrders ==
    { [i \in 1 .. WHEEL_MAX |-> p[i - 1]] : p \in Permutations(WheelPositions) }

\* C37: the result of a detection cycle (the four records, the debounce
\* timers, the consecutive-error counters and the system state) is the same
\* for every order in which the four wheels are processed, given the same
\* vehicle data, calibrations and prior records.
C37_WheelOrderDoesNotMatter ==
    [][ABS_MalfunctionDetection_MainFunction
         => \A order \in WheelOrders :
               LET d == ProcessWheels([status |-> g_MalfunctionStatus,
                                       debounce |-> g_DebounceCounters,
                                       consecutive |-> g_ConsecutiveErrorCount],
                                      g_VehicleData, g_Calibration, g_DetectionParams,
                                      order)
               IN /\ d.status = g_MalfunctionStatus'
                  /\ d.debounce = g_DebounceCounters'
                  /\ d.consecutive = g_ConsecutiveErrorCount'
                  /\ ABS_UpdateSystemState(d.status) = g_SystemState']_vars

\* C37: after a cycle wheel 0 carries a calibration drift, wheel 1 a
\* cross-wheel deviation found in this cycle, and wheel 2 no finding of this
\* cycle.
C37_WheelsWithDifferentFindings ==
    /\ cycleCount >= 2
    /\ g_MalfunctionStatus[0].malfunctionType
         = ABS_MALFUNCTION_SPEED_SENSOR_MISCALIBRATION
    /\ g_ConsecutiveErrorCount[0] = 1
    /\ g_MalfunctionStatus[1].malfunctionType
         = ABS_MALFUNCTION_SPEED_DIFFERENCE_EXCESSIVE
    /\ g_MalfunctionStatus[1].deviationValue = 400
    /\ g_ConsecutiveErrorCount[1] = 2
    /\ g_ConsecutiveErrorCount[2] = 0

(***************************************************************************)
(* Power-up specification: the calibration manager before                  *)
(* CalibrationManager_Init, with wheel 0's persisted block drawn from      *)
(* PowerUpBlocks; CalibrationManager_Init, and after it loads, resets,     *)
(* configuration changes and direct SpeedSensor_SetCalibration calls.      *)
(***************************************************************************)
\* g_CalibrationConfig before CalibrationManager_Init (static storage).
ZeroConfig ==
    [maxCalibrationSamples |-> 0, minCalibrationSamples |-> 0,
     maxCorrectionFactor |-> 0, minCorrectionFactor |-> 0,
     defaultTolerance |-> 0, calibrationTimeoutMs |-> 0,
     enableAutoCalibration |-> FALSE, autoCalibrationIntervalHours |-> 0]

\* What wheel 0's persisted block holds at power-up: the factory defaults,
\* factor 1.15, factor 1.8 (outside the band), factor 1.15 marked invalid.
PowerUpBlocks == NvmContentInputs \cup {FactoryCalibration}

InitPowerUp ==
    /\ InitDetector
    /\ InitSeatbeltWarning
    /\ InitDiagnosticService
    /\ g_SpeedData = [w \in WheelPositions |-> InitialSpeedData]
    /\ g_CalibrationSessions = [w \in WheelPositions |-> InitialSession]
    /\ g_SampleData = [w \in WheelPositions |-> EmptySampleData]
    /\ g_CalibrationConfig = ZeroConfig
    /\ g_CalibrationHistory = [w \in WheelPositions |-> <<>>]
    /\ \E block \in PowerUpBlocks :
          nvmBlocks = [w \in WheelPositions |->
                         IF w \in CalibrationWheels THEN <<block>>
                         ELSE <<FactoryCalibration>>]
    /\ rteDtcRequests = {}
    /\ retVal = E_OK
    /\ g_CalibrationManager_Initialized = FALSE
    /\ g_VehicleData = ZeroVehicleData
    /\ g_Calibration = [w \in WheelPositions |-> DefaultCalibration]
    /\ referenceSpeed = -1

NextPowerUp ==
    \/ \E readResult \in {NVM_REQ_OK, E_NOT_OK}, writeResult \in {NVM_REQ_OK, E_NOT_OK} :
          CalibrationManager_Init(readResult, writeResult)
    \/ /\ g_CalibrationManager_Initialized
       /\ \E w \in CalibrationWheels, readResult \in {NVM_REQ_OK, E_NOT_OK},
             writeResult \in {NVM_REQ_OK, E_NOT_OK} :
             \E loaded \in ReadableBlocks(w) :
                LoadFromNvm(w, readResult, loaded, writeResult)
    \/ /\ g_CalibrationManager_Initialized
       /\ \E config \in NvmConfigInputs : SetConfig(config)
    \/ /\ g_CalibrationManager_Initialized
       /\ \E w \in CalibrationWheels, cf \in SetCalibrationFactorInputs :
             SetCorrectionFactor(w, cf)
    \/ /\ g_CalibrationManager_Initialized
       /\ \E w \in CalibrationWheels, writeResult \in {NVM_REQ_OK, E_NOT_OK} :
             ResetToFactory(w, writeResult)

SpecPowerUp == InitPowerUp /\ [][NextPowerUp]_vars

\* TRUE iff block is marked valid and its correction factor lies in the band
\* of config.
LoadedBlockAccepted(block, config) ==
    /\ block.correctionFactor >= config.minCorrectionFactor
    /\ block.correctionFactor <= config.maxCorrectionFactor
    /\ block.calibrationValid

\* C38: after CalibrationManager_Init each wheel's live coefficients equal
\* the block read from persistence when the read succeeds and the block is
\* valid with its correction factor in [minCorrectionFactor,
\* maxCorrectionFactor], and equal the factory defaults otherwise, with the
\* NVM-error signal raised when the read failed.
C38_InitLoadsPersistedCoefficients ==
    [][\A readResult \in {NVM_REQ_OK, E_NOT_OK}, writeResult \in {NVM_REQ_OK, E_NOT_OK} :
          (/\ ~g_CalibrationManager_Initialized
           /\ CalibrationManager_Init(readResult, writeResult))
            => \A w \in WheelPositions :
                  IF /\ readResult = NVM_REQ_OK
                     /\ LoadedBlockAccepted(nvmBlocks[w][1], g_CalibrationConfig')
                  THEN g_Calibration'[w] = nvmBlocks[w][1]
                  ELSE /\ g_Calibration'[w] = FactoryCalibration
                       /\ readResult # NVM_REQ_OK
                            => RteDtcId(DTC_CALIBRATION_NVM_ERROR) \in rteDtcRequests']_vars

\* The part of C38 the code keeps: CalibrationManager_Init leaves the live
\* coefficients, the persisted blocks and the diagnostic requests as they
\* were, and a later CalibrationManager_LoadFromNvm takes an accepted block
\* and falls back to the factory defaults otherwise, with the NVM-error
\* signal raised when the read failed.
InitKeepsCoefficientsAndLaterLoadApplies ==
    [][/\ \A readResult \in {NVM_REQ_OK, E_NOT_OK}, writeResult \in {NVM_REQ_OK, E_NOT_OK} :
             CalibrationManager_Init(readResult, writeResult)
               => UNCHANGED <<g_Calibration, nvmBlocks, rteDtcRequests>>
       /\ \A w \in CalibrationWheels, readResult \in {NVM_REQ_OK, E_NOT_OK},
             writeResult \in {NVM_REQ_OK, E_NOT_OK} :
             \A loaded \in ReadableBlocks(w) :
                (/\ g_CalibrationManager_Initialized
                 /\ LoadFromNvm(w, readResult, loaded, writeResult))
                  => IF /\ readResult = NVM_REQ_OK
                        /\ LoadedBlockAccepted(loaded, g_CalibrationConfig)
                     THEN g_Calibration'[w] = loaded
                     ELSE /\ g_Calibration'[w] = FactoryCalibration
                          /\ readResult # NVM_REQ_OK
                               => RteDtcId(DTC_CALIBRATION_NVM_ERROR)
                                    \in rteDtcRequests']_vars

\* C38: CalibrationManager_Init has run, wheel 0's persisted block is valid
\* with factor 1.15, and the live factor of wheel 0 is 1.0.
C38_PersistedFactorNotLiveAfterInit ==
    /\ g_CalibrationManager_Initialized
    /\ g_CalibrationConfig = CalibrationManager_InitDefaultConfig
    /\ nvmBlocks[0] = << [FactoryCalibration EXCEPT !.correctionFactor = 1150] >>
    /\ g_Calibration[0] = DefaultCalibration
    /\ g_CalibrationHistory[0] = <<>>
    /\ rteDtcRequests = {}

(***************************************************************************)
(* Capacity specification: one session of wheel 0 that keeps sampling (its *)
(* time budget of 10 s never elapses), the default configuration and one   *)
(* whose sample limit is one above the size of the sample buffers, and     *)
(* calibration cycles up to one sample beyond the buffers.                 *)
(***************************************************************************)
\* The default configuration, and the same with maxCalibrationSamples 1001.
CapacityConfigInputs ==
    { CalibrationManager_InitDefaultConfig,
      [CalibrationManager_InitDefaultConfig EXCEPT
         !.maxCalibrationSamples = CALIBRATION_MAX_SAMPLES + 1] }

NextCapacity ==
    \/ \E config \in CapacityConfigInputs : SetConfig(config)
    \/ \E w \in CalibrationWheels : StartCalibration(ManualRequest(w, 500, 1000, 10000))
    \/ \E w \in CalibrationWheels :
          StoreSpeedData(w, [wheelSpeed |-> 500, speedValid |-> TRUE])
    \/ CalibrationManager_MainFunctionUpTo(CALIBRATION_MAX_SAMPLES + 1)

SpecCapacity == Init /\ [][NextCapacity]_vars

\* C39: in every reachable state, including after any
\* CalibrationManager_SetConfig, each wheel's collected-sample count is at
\* most the size of the sample buffers (CALIBRATION_MAX_SAMPLES = 1000), so
\* a sample is only written at an index inside the buffers.
C39_SampleCountWithinBuffer ==
    \A w \in WheelPositions :
       Len(g_SampleData[w].speedSamples) <= CALIBRATION_MAX_SAMPLES

\* The part of C39 the code keeps: a wheel's sample count is at most the
\* largest maxCalibrationSamples that was configured while it was sampled;
\* here that is the buffer size plus one.
SampleCountWithinConfiguredLimit ==
    \A w \in WheelPositions :
       /\ Len(g_SampleData[w].speedSamples) <= CALIBRATION_MAX_SAMPLES + 1
       /\ Len(g_SampleData[w].speedSamples) > CALIBRATION_MAX_SAMPLES
            => g_CalibrationSessions[w].samplesCollected
                 = Len(g_SampleData[w].speedSamples)

\* C39: wheel 0 has 1001 samples after a cycle that stored one with
\* maxCalibrationSamples 1001.
C39_SampleStoredBeyondBuffer ==
    /\ Len(g_SampleData[0].speedSamples) = CALIBRATION_MAX_SAMPLES + 1
    /\ g_CalibrationSessions[0].samplesCollected = CALIBRATION_MAX_SAMPLES + 1
    /\ g_CalibrationSessions[0].state = CALIBRATION_STATE_IN_PROGRESS

(***************************************************************************)
(* History specification: sessions of wheel 0 with the small               *)
(* configuration, any number of applications of a completed session and    *)
(* of factory resets of wheel 0, and one factory reset of wheel 1.         *)
(***************************************************************************)


NextHistory ==
    \/ SetConfig(SmallConfig(CALIBRATION_TIMEOUT_MS))
    \/ \E w \in CalibrationWheels : StartCalibration(ManualRequest(w, 600, 1000, 0))
    \/ \E w \in CalibrationWheels :
          StoreSpeedData(w, [wheelSpeed |-> 500, speedValid |-> TRUE])
    \/ CalibrationManager_MainFunction
    \/ \E w \in CalibrationWheels :
          ApplyCalibrationUpTo(CALIBRATION_HISTORY_SIZE + 1, w, FALSE, NVM_REQ_OK)
    \/ \E w \in CalibrationWheels :
          ResetToFactoryUpTo(CALIBRATION_HISTORY_SIZE + 1, w, NVM_REQ_OK)
    \/ ResetToFactoryUpTo(1, 1, NVM_REQ_OK)

SpecHistory == Init /\ [][NextHistory]_vars

\* The most recent CALIBRATION_HISTORY_SIZE entries of history followed by
\* entry, in their order.
MostRecentEntries(history, entry) ==
    LET all == Append(history, entry)
    IN IF Len(all) <= CALIBRATION_HISTORY_SIZE THEN all
       ELSE SubSeq(all, Len(all) - CALIBRATION_HISTORY_SIZE + 1, Len(all))

\* TRUE iff the step adds entry to the history of wheel w and leaves the
\* histories of the other wheels as they were.
HistoryEntryAdded(w, entry) ==
    /\ g_CalibrationHistory'[w] = MostRecentEntries(g_CalibrationHistory[w], entry)
    /\ \A v \in WheelPositions \ {w} :
          g_CalibrationHistory'[v] = g_CalibrationHistory[v]

====
